---------------------------- MODULE Spec2Model ----------------------------
(***************************************************************************)
(* Model of tools/sp/atlas_api.py (AtlasStreamProcessingAPI): the pipeline *)
(* complexity scorer analyze_processor_complexity_detailed and the         *)
(* tier-violation error parser _parse_tier_validation_error.               *)
(*                                                                         *)
(* Text is modelled as sequences of one-character strings so that          *)
(* substring tests, str(), lower() and regular-expression searches are     *)
(* computed on characters, as the Python code computes them.               *)
(***************************************************************************)
EXTENDS Integers, Sequences, FiniteSets, TLC

VARIABLES
    loader,            \* where the processor definition comes from
    processor_data,    \* the loaded definition (a JSON value)
    pc,                \* position of the scorer call: "start" | "done"
    result,            \* value returned by analyze_processor_complexity_detailed
    permuted_data,     \* a second definition: the first with its stages permuted
    permuted_pc,       \* position of the call on permuted_data
    permuted_result,   \* value returned for permuted_data
    error_text,        \* argument of _parse_tier_validation_error
    parse_pc,          \* position of the parser call: "idle" | "start" | "done"
    suggested,         \* value returned by _parse_tier_validation_error
    processor_file,    \* the processor file given to the validators
    connection_names,  \* the connection names the validators load
    validate_pc,       \* position of validate_processor_file: "idle" | "start" | "done"
    validation,        \* value returned by validate_processor_file
    strict_pc,         \* the unittest method to run next, "idle" or "done"
    strict,            \* outcome of each unittest method on the file
    values,            \* a metric series given to safe_stats
    stats_pc,          \* position of the safe_stats call: "idle" | "start" | "done"
    metric_stats,      \* value returned by safe_stats
    profile_mode,      \* "bounded": profile_processors, "continuous": the other
    processor_names,   \* the processors a profiling run samples
    interval,          \* seconds between two ticks
    duration,          \* seconds a bounded run lasts
    thresholds,        \* the alert thresholds of the run
    samples,           \* the tick records appended so far
    sample,            \* the record of the tick under way
    next_processor,    \* index in processor_names of the next fetch of the tick
    profile_pc,        \* position of the run
    printed,           \* alerts printed so far, each with the tick it was printed in
    profile,           \* value the run returned
    now,               \* seconds since the run started
    interrupted,       \* a KeyboardInterrupt was delivered to the run
    stats_result,      \* what the last get_single_processor_stats returned or raised
    timestamp,         \* the time the running tick began
    metric_series,     \* the series of a pipeline's metrics given to the analyzer
    recommend_pc,      \* "idle", "start" or "done"
    recommendations,   \* the list _generate_recommendations returned
    processor_files,   \* the files validate_all_processors found
    results,           \* the summary validate_all_processors builds
    suite_pc,          \* "idle", "loop" or "returned"
    requested_tier,    \* the tier start_processor was called with (empty: none)
    sent,              \* the start requests sent, with their responses
    suggested_tier,    \* what the error parser returned for the rejected start
    start_pc,          \* the position of the call
    start_result       \* what start_processor returned

validator_vars == <<processor_file, connection_names, validate_pc,
                    validation, strict_pc, strict>>

trend_vars == <<values, stats_pc, metric_stats>>

profiler_vars == <<profile_mode, processor_names, interval, duration,
                   thresholds, samples, sample, next_processor, profile_pc,
                   printed, profile, now, interrupted, stats_result,
                   timestamp>>

recommend_vars == <<metric_series, recommend_pc, recommendations>>

\* the components modelled after the profiler
suite_vars == <<processor_files, results, suite_pc>>

starter_vars == <<requested_tier, sent, suggested_tier, start_pc,
                  start_result>>

rest_vars == <<recommend_vars, suite_vars, starter_vars>>

vars == <<loader, processor_data, pc, result, permuted_data, permuted_pc,
          permuted_result, error_text, parse_pc, suggested, validator_vars,
          trend_vars, profiler_vars, rest_vars>>

-----------------------------------------------------------------------------
(* Bounds of the model                                                     *)

MaxBase == 2        \* stages drawn freely from the stage vocabulary
MaxPad == 9         \* further copies of one padding stage appended
MaxFragments == 4   \* fragments an error text is assembled from
MaxPermLen == 3     \* longest freely drawn pipeline in the permutation check

-----------------------------------------------------------------------------
(* Characters and text                                                     *)

k_function == <<"$","f","u","n","c","t","i","o","n">>
k_window == <<"$","w","i","n","d","o","w">>
k_facet == <<"$","f","a","c","e","t">>
k_lookup == <<"$","l","o","o","k","u","p">>
k_group == <<"$","g","r","o","u","p">>
k_sort == <<"$","s","o","r","t">>
k_source == <<"$","s","o","u","r","c","e">>
k_merge == <<"$","m","e","r","g","e">>
k_kafka == <<"k","a","f","k","a">>
k_parallelism == <<"p","a","r","a","l","l","e","l","i","s","m">>
k_into == <<"i","n","t","o">>
k_pipeline == <<"p","i","p","e","l","i","n","e">>

\* needle in haystack, for two Python strings
MatchesAt(needle, hay, p) ==
    /\ p + Len(needle) - 1 <= Len(hay)
    /\ \A q \in 1..Len(needle) : hay[p + q - 1] = needle[q]

Contains(needle, hay) == \E p \in 1..Len(hay) : MatchesAt(needle, hay, p)

UpperCase == <<"A","B","C","D","E","F","G","H","I","J","K","L","M",
               "N","O","P","Q","R","S","T","U","V","W","X","Y","Z">>
LowerCase == <<"a","b","c","d","e","f","g","h","i","j","k","l","m",
               "n","o","p","q","r","s","t","u","v","w","x","y","z">>

LowerChar(c) ==
    IF \E j \in 1..26 : UpperCase[j] = c
    THEN LowerCase[CHOOSE j \in 1..26 : UpperCase[j] = c]
    ELSE c

\* str.lower()
Lower(s) == [p \in 1..Len(s) |-> LowerChar(s[p])]

DigitChars == <<"0","1","2","3","4","5","6","7","8","9">>

RECURSIVE NatStr(_)
NatStr(n) == IF n < 10 THEN <<DigitChars[n + 1]>>
             ELSE NatStr(n \div 10) \o <<DigitChars[(n % 10) + 1]>>

IntStr(n) == IF n < 0 THEN <<"-">> \o NatStr(-n) ELSE NatStr(n)

-----------------------------------------------------------------------------
(* JSON values as json.load / response.json() deliver them.  A float is    *)
(* kept in halves: n = 5 stands for 2.5.                                   *)

VInt(n)     == [t |-> "int",   n |-> n, s |-> <<>>, items |-> <<>>]
VFloat(h)   == [t |-> "float", n |-> h, s |-> <<>>, items |-> <<>>]
VNaN        == [t |-> "nan",   n |-> 0, s |-> <<>>, items |-> <<>>]
VTrue       == [t |-> "bool",  n |-> 1, s |-> <<>>, items |-> <<>>]
VNone       == [t |-> "none",  n |-> 0, s |-> <<>>, items |-> <<>>]
VStr(s)     == [t |-> "str",   n |-> 0, s |-> s,    items |-> <<>>]
VDict(kvs)  == [t |-> "dict",  n |-> 0, s |-> <<>>, items |-> kvs]
VList(vs)   == [t |-> "list",  n |-> 0, s |-> <<>>, items |-> vs]
KV(k, v)    == [k |-> k, v |-> v]

IsDict(v) == v.t = "dict"
\* isinstance(value, (int, float)): bool is a subclass of int, nan is a float
IsNumber(v) == v.t \in {"int", "float", "nan", "bool"}

HasKey(d, k) == \E p \in 1..Len(d.items) : d.items[p].k = k
Get(d, k) == d.items[CHOOSE p \in 1..Len(d.items) : d.items[p].k = k].v

\* int(value): truncation toward zero of a float
IntOf(v) ==
    IF v.t = "float"
    THEN (IF v.n >= 0 THEN v.n \div 2 ELSE -((-v.n) \div 2))
    ELSE v.n

\* int(float('nan')) raises ValueError
IntRaises(v) == v.t = "nan"

FloatStr(h) ==
    (IF h < 0 THEN <<"-">> ELSE <<>>)
    \o NatStr((IF h < 0 THEN -h ELSE h) \div 2)
    \o <<".">>
    \o (IF h % 2 = 1 THEN <<"5">> ELSE <<"0">>)

\* str(value) of a JSON value (Python repr)
RECURSIVE Str(_)
RECURSIVE StrItems(_, _, _)
StrItems(items, p, isDict) ==
    IF p > Len(items) THEN <<>>
    ELSE (IF p > 1 THEN <<",", " ">> ELSE <<>>)
         \o (IF isDict
             THEN <<"'">> \o items[p].k \o <<"'", ":", " ">> \o Str(items[p].v)
             ELSE Str(items[p]))
         \o StrItems(items, p + 1, isDict)
Str(v) ==
    CASE v.t = "int"   -> IntStr(v.n)
      [] v.t = "float" -> FloatStr(v.n)
      [] v.t = "nan"   -> <<"n","a","n">>
      [] v.t = "bool"  -> <<"T","r","u","e">>
      [] v.t = "none"  -> <<"N","o","n","e">>
      [] v.t = "str"   -> <<"'">> \o v.s \o <<"'">>
      [] v.t = "dict"  -> <<"{">> \o StrItems(v.items, 1, TRUE) \o <<"}">>
      [] v.t = "list"  -> <<"[">> \o StrItems(v.items, 1, FALSE) \o <<"]">>

-----------------------------------------------------------------------------
(* analyze_processor_complexity_detailed                                   *)

tier_hierarchy == <<"SP2", "SP5", "SP10", "SP30", "SP50">>

\* tier_hierarchy.index(tier)
TierIndex(tier) == CHOOSE p \in 1..Len(tier_hierarchy) : tier_hierarchy[p] = tier

Max(a, b) == IF a >= b THEN a ELSE b

\* the accumulators of the stage loop; raised is the exception that ended
\* the walk ("" while none was raised)
NewAnalysis ==
    [raised |-> "", complexity_score |-> 0, connections_count |-> 0,
     total_parallelism |-> 0, complexity_factors |-> <<>>,
     parallelism_details |-> <<>>]

Raise(acc, exception) ==
    IF acc.raised = "" THEN [acc EXCEPT !.raised = exception] ELSE acc

Factor(i, kind, weight) == [stage |-> i, kind |-> kind, weight |-> weight]

\* if needle in str(stage): complexity_score += weight; append the factor
AddOperator(acc, i, text, needle, kind, weight) ==
    IF acc.raised = "" /\ Contains(needle, text)
    THEN [acc EXCEPT !.complexity_score = @ + weight,
                     !.complexity_factors = Append(@, Factor(i, kind, weight))]
    ELSE acc

\* "Complex operations", in the order the code tests them
ComplexOperations(acc, i, text) ==
    AddOperator(
     AddOperator(
      AddOperator(
       AddOperator(
        AddOperator(
         AddOperator(acc, i, text, k_function, "function", 40),
         i, text, k_window, "window", 30),
        i, text, k_facet, "facet", 25),
       i, text, k_lookup, "lookup", 20),
      i, text, k_group, "group", 15),
     i, text, k_sort, "sort", 10)

\* "Check for Kafka partitions": "kafka" in str(stage).lower()
KafkaIntegration(acc, i, text) ==
    AddOperator(acc, i, Lower(text), k_kafka, "kafka", 15)

\* the expression  key in stage  raises TypeError for these values
InRaises(stage) == stage.t \in {"int", "float", "nan", "bool", "none"}

\* key in stage: key of a dict, substring of a str, element of a list
InStage(key, stage) ==
    CASE stage.t = "dict" -> HasKey(stage, key)
      [] stage.t = "str"  -> Contains(key, stage.s)
      [] stage.t = "list" -> \E p \in 1..Len(stage.items) :
                                 stage.items[p] = VStr(key)
      [] OTHER -> FALSE

\* "Count connections (sources and sinks)"
CountConnections(acc, stage) ==
    IF acc.raised # "" THEN acc
    ELSE IF InRaises(stage) THEN Raise(acc, "TypeError")
    ELSE [acc EXCEPT !.connections_count =
              @ + (IF InStage(k_source, stage) THEN 1 ELSE 0)
                + (IF InStage(k_merge, stage) THEN 1 ELSE 0)]

\* Counts with the comparison slipped to >= 1
Counts_from_one(parallelism_val) == parallelism_val >= 1

\* "only count parallelism > 1"
Counts(parallelism_val) == parallelism_val > 1

\* the contribution of a counted field to total_parallelism
Contribution(parallelism_val) == parallelism_val - 1

\* ParallelismPoints without the factor 5
ParallelismPoints_unscaled(parallelism_val) == parallelism_val

\* the complexity points of a counted field
ParallelismPoints(parallelism_val) == parallelism_val * 5

\* one parallelism field: isinstance check, int(), the > 1 test and the
\* three updates
AddParallelism(acc, i, key, level, value) ==
    IF acc.raised # "" \/ ~IsNumber(value) THEN acc
    ELSE IF IntRaises(value) THEN Raise(acc, "ValueError")
    ELSE LET parallelism_val == IntOf(value)
         IN  IF Counts(parallelism_val)
             THEN [acc EXCEPT
                     !.total_parallelism = @ + Contribution(parallelism_val),
                     !.parallelism_details =
                         Append(@, [stage |-> i, key |-> key, level |-> level,
                                    parallelism_val |-> parallelism_val,
                                    contribution |-> Contribution(parallelism_val)]),
                     !.complexity_score = @ + ParallelismPoints(parallelism_val)]
             ELSE acc

\* "Parallelism inside operator config"
ConfigParallelism(acc, i, key, value) ==
    IF HasKey(value, k_parallelism)
    THEN AddParallelism(acc, i, key, "config", Get(value, k_parallelism))
    ELSE acc

\* "Also check nested "into" for $merge"
IntoParallelism(acc, i, key, value) ==
    IF HasKey(value, k_into) /\ IsDict(Get(value, k_into))
       /\ HasKey(Get(value, k_into), k_parallelism)
    THEN AddParallelism(acc, i, key, "into",
                        Get(Get(value, k_into), k_parallelism))
    ELSE acc

\* the body of  for key, value in stage.items()
ItemParallelism(acc, i, key, value) ==
    IF key = k_parallelism /\ IsNumber(value)
    THEN AddParallelism(acc, i, key, "stage", value)
    ELSE IF IsDict(value)
    THEN IntoParallelism(ConfigParallelism(acc, i, key, value), i, key, value)
    ELSE acc

\* "Extract parallelism settings": if isinstance(stage, dict): for key, value ...
RECURSIVE ExtractParallelism(_, _, _, _)
ExtractParallelism(acc, i, stage, p) ==
    IF ~IsDict(stage) \/ p > Len(stage.items) THEN acc
    ELSE ExtractParallelism(
             ItemParallelism(acc, i, stage.items[p].k, stage.items[p].v),
             i, stage, p + 1)

\* one iteration of  for i, stage in enumerate(pipeline)
AnalyzeStage(acc, i, stage) ==
    LET text == Str(stage)
    IN  KafkaIntegration(
            ExtractParallelism(
                CountConnections(ComplexOperations(acc, i, text), stage),
                i, stage, 1),
            i, text)

\* the stage loop
RECURSIVE Walk(_, _, _)
Walk(acc, stages, i) ==
    IF i > Len(stages) \/ acc.raised # "" THEN acc
    ELSE Walk(AnalyzeStage(acc, i, stages[i]), stages, i + 1)

\* LengthFactor with  if  in place of  elif : the bands add up
LengthFactor_cumulative(acc, pipeline_length) ==
    LET bonus == (IF pipeline_length > 8 THEN 20 ELSE 0)
                 + (IF pipeline_length > 5 THEN 10 ELSE 0)
                 + (IF pipeline_length > 3 THEN 5 ELSE 0)
    IN  IF bonus = 0 THEN acc
        ELSE [acc EXCEPT !.complexity_score = @ + bonus,
                         !.complexity_factors = Append(@, Factor(0, "length", bonus))]

\* "Pipeline length factor"
LengthFactor(acc, pipeline_length) ==
    LET bonus == IF pipeline_length > 8 THEN 20
                 ELSE IF pipeline_length > 5 THEN 10
                 ELSE IF pipeline_length > 3 THEN 5
                 ELSE 0
    IN  IF bonus = 0 THEN acc
        ELSE [acc EXCEPT !.complexity_score = @ + bonus,
                         !.complexity_factors = Append(@, Factor(0, "length", bonus))]

\* ConnectionFactor with the lower band starting at 2 connections
ConnectionFactor_from_two(acc) ==
    LET bonus == IF acc.connections_count > 4 THEN 15
                 ELSE IF acc.connections_count >= 2 THEN 10
                 ELSE 0
    IN  IF bonus = 0 THEN acc
        ELSE [acc EXCEPT !.complexity_score = @ + bonus,
                         !.complexity_factors =
                             Append(@, Factor(0, "connections", bonus))]

\* "Connection count factor"
ConnectionFactor(acc) ==
    LET bonus == IF acc.connections_count > 4 THEN 15
                 ELSE IF acc.connections_count > 2 THEN 10
                 ELSE 0
    IN  IF bonus = 0 THEN acc
        ELSE [acc EXCEPT !.complexity_score = @ + bonus,
                         !.complexity_factors =
                             Append(@, Factor(0, "connections", bonus))]

\* min_tier_from_parallelism with the SP10 band starting at 1
min_tier_from_parallelism_from_one(total_parallelism) ==
    IF total_parallelism > 48 THEN "SP50"
    ELSE IF total_parallelism > 8 THEN "SP30"
    ELSE IF total_parallelism >= 1 THEN "SP10"
    ELSE IF total_parallelism = 1 THEN "SP5"
    ELSE "SP2"

\* "Apply parallelism-based tier minimums"
min_tier_from_parallelism(total_parallelism) ==
    IF total_parallelism > 48 THEN "SP50"
    ELSE IF total_parallelism > 8 THEN "SP30"
    ELSE IF total_parallelism > 1 THEN "SP10"
    ELSE IF total_parallelism = 1 THEN "SP5"
    ELSE "SP2"

\* recommended_tier with strict thresholds
recommended_tier_strict(complexity_score) ==
    IF complexity_score > 80 THEN "SP50"
    ELSE IF complexity_score > 50 THEN "SP30"
    ELSE IF complexity_score > 25 THEN "SP10"
    ELSE IF complexity_score > 10 THEN "SP5"
    ELSE "SP2"

\* "Determine tier based on complexity score"
recommended_tier(complexity_score) ==
    IF complexity_score >= 80 THEN "SP50"
    ELSE IF complexity_score >= 50 THEN "SP30"
    ELSE IF complexity_score >= 25 THEN "SP10"
    ELSE IF complexity_score >= 10 THEN "SP5"
    ELSE "SP2"

\* final_tier taking the greater tier name in string order
final_tier_by_name(complexity_tier, parallelism_tier) ==
    LET names == <<"SP10", "SP2", "SP30", "SP5", "SP50">>
        place(tier) == CHOOSE p \in 1..5 : names[p] = tier
    IN  names[Max(place(complexity_tier), place(parallelism_tier))]

\* "Use the higher of complexity-based recommendation or parallelism minimum"
final_tier(complexity_tier, parallelism_tier) ==
    tier_hierarchy[Max(TierIndex(complexity_tier), TierIndex(parallelism_tier))]

\* "Build reasoning"
primary_reason(complexity_tier, parallelism_tier) ==
    IF TierIndex(complexity_tier) >= TierIndex(parallelism_tier)
    THEN "Complexity-driven"
    ELSE "Parallelism-driven"

NoAnalysis ==
    [total_parallelism |-> 0, complexity_score |-> 0, pipeline_stages |-> 0,
     connections_count |-> 0, complexity_tier |-> "", parallelism_tier |-> "",
     parallelism_details |-> <<>>, complexity_factors |-> <<>>]

\* the return of the "not found" branch
NotFoundResult ==
    [recommended_tier |-> "SP10", scored |-> FALSE,
     error |-> "Processor not found locally or in Atlas",
     reasoning |-> "Default fallback for missing processor",
     analysis |-> NoAnalysis]

\* ExceptionResult falling back to the lowest tier
ExceptionResult_lowest(exception) ==
    [recommended_tier |-> "SP2", scored |-> FALSE, error |-> exception,
     reasoning |-> "Error occurred during analysis, using default tier",
     analysis |-> NoAnalysis]

\* the return of the  except Exception  handler
ExceptionResult(exception) ==
    [recommended_tier |-> "SP10", scored |-> FALSE, error |-> exception,
     reasoning |-> "Error occurred during analysis, using default tier",
     analysis |-> NoAnalysis]

\* the normal return
ScoredResult(acc, pipeline_length) ==
    LET complexity_tier == recommended_tier(acc.complexity_score)
        parallelism_tier == min_tier_from_parallelism(acc.total_parallelism)
    IN  [recommended_tier |-> final_tier(complexity_tier, parallelism_tier),
         scored |-> TRUE, error |-> "",
         reasoning |-> primary_reason(complexity_tier, parallelism_tier),
         analysis |->
            [total_parallelism |-> acc.total_parallelism,
             complexity_score |-> acc.complexity_score,
             pipeline_stages |-> pipeline_length,
             connections_count |-> acc.connections_count,
             complexity_tier |-> complexity_tier,
             parallelism_tier |-> parallelism_tier,
             parallelism_details |-> acc.parallelism_details,
             complexity_factors |-> acc.complexity_factors]]

\* bool(value) is False
Falsy(v) ==
    \/ v.t = "none"
    \/ v.t \in {"int", "float"} /\ v.n = 0
    \/ v.t = "str" /\ v.s = <<>>
    \/ v.t \in {"dict", "list"} /\ v.items = <<>>

\* iterating over these values raises TypeError
IterRaises(v) == v.t \in {"int", "float", "nan", "bool", "none"}

\* the elements  for stage in pipeline  visits: the items of a list, the
\* keys of a dict, the characters of a str
Elements(v) ==
    CASE v.t = "list" -> v.items
      [] v.t = "dict" -> [p \in 1..Len(v.items) |-> VStr(v.items[p].k)]
      [] v.t = "str"  -> [p \in 1..Len(v.s) |-> VStr(<<v.s[p]>>)]
      [] OTHER -> <<>>

\* the definition the call works on: json.load of the local file, the body of
\* a 200 answer, or None
Located(ld, data) ==
    IF ld \in {"local", "api_200"} THEN data ELSE VNone

\* the whole call, for a definition obtained through loader ld
analyze_processor_complexity_detailed(ld, data) ==
    IF ld = "local_invalid" THEN ExceptionResult("JSONDecodeError")
    ELSE IF Falsy(Located(ld, data)) THEN NotFoundResult
    ELSE IF ~IsDict(Located(ld, data)) THEN ExceptionResult("AttributeError")
    ELSE LET pipeline == IF HasKey(data, k_pipeline)
                         THEN Get(data, k_pipeline) ELSE VList(<<>>)
         IN  IF IterRaises(pipeline) THEN ExceptionResult("TypeError")
             ELSE LET acc == Walk(NewAnalysis, Elements(pipeline), 1)
                      pipeline_length == Len(Elements(pipeline))
                  IN  IF acc.raised # "" THEN ExceptionResult(acc.raised)
                      ELSE ScoredResult(
                               ConnectionFactor(LengthFactor(acc, pipeline_length)),
                               pipeline_length)

-----------------------------------------------------------------------------
(* Inputs: the stages pipelines are assembled from                         *)

SourceStage ==
    VDict(<<KV(<<"$","s","o","u","r","c","e">>,
        VDict(<<KV(<<"c","o","n","n","e","c","t","i","o","n","N","a","m","e">>,
        VStr(<<"s","r","c">>))>>))>>)
KafkaSourceStage ==
    VDict(<<KV(<<"$","s","o","u","r","c","e">>,
        VDict(<<KV(<<"c","o","n","n","e","c","t","i","o","n","N","a","m","e">>,
        VStr(<<"K","a","f","k","a","_","i","n">>))>>))>>)
MatchStage ==
    VDict(<<KV(<<"$","m","a","t","c","h">>, VDict(<<KV(<<"a">>,
        VInt(1))>>))>>)
GroupStage ==
    VDict(<<KV(<<"$","g","r","o","u","p">>, VDict(<<KV(<<"_","i","d">>,
        VStr(<<"$","a">>))>>))>>)
SortStage ==
    VDict(<<KV(<<"$","s","o","r","t">>, VDict(<<KV(<<"a">>, VInt(1))>>))>>)
MergeInto9Stage ==
    VDict(<<KV(<<"$","m","e","r","g","e">>, VDict(<<KV(<<"i","n","t","o">>,
        VDict(<<KV(<<"c","o","n","n","e","c","t","i","o","n","N","a","m","e">>,
        VStr(<<"c">>)), KV(<<"d","b">>, VStr(<<"d">>)),
        KV(<<"c","o","l","l">>, VStr(<<"e">>)),
        KV(<<"p","a","r","a","l","l","e","l","i","s","m">>,
        VInt(9))>>))>>))>>)
MergeOnesStage ==
    VDict(<<KV(<<"$","m","e","r","g","e">>, VDict(<<KV(<<"i","n","t","o">>,
        VDict(<<KV(<<"c","o","l","l">>, VStr(<<"e">>)),
        KV(<<"p","a","r","a","l","l","e","l","i","s","m">>, VInt(1))>>)),
        KV(<<"p","a","r","a","l","l","e","l","i","s","m">>, VInt(1))>>))>>)
MergePlainStage ==
    VDict(<<KV(<<"$","m","e","r","g","e">>, VDict(<<KV(<<"i","n","t","o">>,
        VDict(<<KV(<<"c","o","l","l">>, VStr(<<"e">>))>>))>>))>>)
Merge2Stage ==
    VDict(<<KV(<<"$","m","e","r","g","e">>,
        VDict(<<KV(<<"p","a","r","a","l","l","e","l","i","s","m">>,
        VInt(2))>>))>>)
Emit10Stage ==
    VDict(<<KV(<<"$","e","m","i","t">>,
        VDict(<<KV(<<"p","a","r","a","l","l","e","l","i","s","m">>,
        VInt(10))>>))>>)
Merge50Stage ==
    VDict(<<KV(<<"$","m","e","r","g","e">>,
        VDict(<<KV(<<"p","a","r","a","l","l","e","l","i","s","m">>,
        VInt(50))>>))>>)
Merge3Into4Stage ==
    VDict(<<KV(<<"$","m","e","r","g","e">>,
        VDict(<<KV(<<"p","a","r","a","l","l","e","l","i","s","m">>,
        VInt(3)), KV(<<"i","n","t","o">>,
        VDict(<<KV(<<"p","a","r","a","l","l","e","l","i","s","m">>,
        VInt(4))>>))>>))>>)
FunctionStage ==
    VDict(<<KV(<<"$","a","d","d","F","i","e","l","d","s">>,
        VDict(<<KV(<<"x">>,
        VDict(<<KV(<<"$","f","u","n","c","t","i","o","n">>,
        VDict(<<KV(<<"l","a","n","g">>, VStr(<<"j","s">>))>>))>>))>>))>>)
TumblingWindowStage ==
    VDict(<<KV(<<"$","t","u","m","b","l","i","n","g","W","i","n","d","o","w">>,
        VDict(<<KV(<<"i","n","t","e","r","v","a","l">>, VInt(1))>>))>>)
HoppingWindowStage ==
    VDict(<<KV(<<"$","h","o","p","p","i","n","g","W","i","n","d","o","w">>,
        VDict(<<KV(<<"i","n","t","e","r","v","a","l">>, VInt(1))>>))>>)
SessionWindowStage ==
    VDict(<<KV(<<"$","s","e","s","s","i","o","n","W","i","n","d","o","w">>,
        VDict(<<KV(<<"g","a","p">>, VInt(1))>>))>>)
WindowFieldStage ==
    VDict(<<KV(<<"$","p","r","o","j","e","c","t">>, VDict(<<KV(<<"w">>,
        VStr(<<"$","w","i","n","d","o","w">>))>>))>>)
FacetStage ==
    VDict(<<KV(<<"$","f","a","c","e","t">>, VDict(<<KV(<<"a">>,
        VList(<<>>))>>))>>)
LookupStage ==
    VDict(<<KV(<<"$","l","o","o","k","u","p">>,
        VDict(<<KV(<<"f","r","o","m">>, VStr(<<"c">>))>>))>>)
MergeFloatStage ==
    VDict(<<KV(<<"$","m","e","r","g","e">>,
        VDict(<<KV(<<"p","a","r","a","l","l","e","l","i","s","m">>,
        VFloat(5))>>))>>)
MergeIntoFloatStage ==
    VDict(<<KV(<<"$","m","e","r","g","e">>, VDict(<<KV(<<"i","n","t","o">>,
        VDict(<<KV(<<"p","a","r","a","l","l","e","l","i","s","m">>,
        VFloat(3))>>))>>))>>)
StageLevel10Stage ==
    VDict(<<KV(<<"$","s","o","u","r","c","e">>,
        VDict(<<KV(<<"c","o","n","n","e","c","t","i","o","n","N","a","m","e">>,
        VStr(<<"s","r","c">>))>>)),
        KV(<<"p","a","r","a","l","l","e","l","i","s","m">>, VInt(10))>>)
DeepParallelismStage ==
    VDict(<<KV(<<"$","m","e","r","g","e">>, VDict(<<KV(<<"i","n","t","o">>,
        VDict(<<KV(<<"x">>,
        VDict(<<KV(<<"p","a","r","a","l","l","e","l","i","s","m">>,
        VInt(7))>>))>>))>>))>>)
TextParallelismStage ==
    VDict(<<KV(<<"$","e","m","i","t">>,
        VDict(<<KV(<<"p","a","r","a","l","l","e","l","i","s","m">>,
        VStr(<<"1","0">>))>>))>>)
NaNParallelismStage ==
    VDict(<<KV(<<"$","m","e","r","g","e">>,
        VDict(<<KV(<<"p","a","r","a","l","l","e","l","i","s","m">>,
        VNaN)>>))>>)
TextStage ==
    VStr(<<"$","s","o","u","r","c","e">>)
ListStage ==
    VList(<<VStr(<<"$","m","e","r","g","e">>)>>)
NumberStage ==
    VInt(1)
NullStage ==
    VNone

k_name == <<"n","a","m","e">>

\* stages that are combined freely
StageVocabulary ==
    {SourceStage, KafkaSourceStage, MatchStage,
     GroupStage, SortStage, MergeInto9Stage,
     MergeOnesStage, MergePlainStage, Merge2Stage,
     Emit10Stage, Merge50Stage, Merge3Into4Stage,
     FunctionStage, TumblingWindowStage, HoppingWindowStage,
     SessionWindowStage, WindowFieldStage, FacetStage,
     LookupStage, MergeFloatStage, MergeIntoFloatStage,
     StageLevel10Stage, DeepParallelismStage, TextParallelismStage,
     NaNParallelismStage, TextStage, ListStage,
     NumberStage, NullStage}

\* stages a long pipeline is padded with
PadStages == {MatchStage, SourceStage}

\* stages a padded pipeline starts with
HeadStages == {MatchStage, MergePlainStage, GroupStage, Merge2Stage}

SeqsUpTo(S, n) == UNION {[1..m -> S] : m \in 0..n}

Pad(stage, n) == [p \in 1..n |-> stage]

\* the end-to-end scenario: source, grouping, sort, merge with parallelism 9
\* inside its "into" configuration
ScenarioPipeline == <<SourceStage, GroupStage, SortStage, MergeInto9Stage>>

PipelineSet ==
    SeqsUpTo(StageVocabulary, MaxBase)
    \cup {h \o Pad(pad, n) : h \in SeqsUpTo(HeadStages, 1),
                             pad \in PadStages, n \in 1..MaxPad}
    \cup {ScenarioPipeline}

\* a processor definition file: {"name": ..., "pipeline": [...]}
Processor(stages) ==
    VDict(<<KV(k_name, VStr(<<"p">>)), KV(k_pipeline, VList(stages))>>)

\* definitions that are not of that shape
OddData ==
    {VDict(<<>>),
     VDict(<<KV(k_name, VStr(<<"p">>))>>),
     VList(<<SourceStage>>),
     VStr(<<"p">>),
     VDict(<<KV(k_pipeline, VInt(5))>>),
     VDict(<<KV(k_pipeline, VNone)>>)}

ProcessorDataSet == {Processor(stages) : stages \in PipelineSet} \cup OddData

\* what the control plane may answer with
ApiDataSet ==
    {Processor(stages) : stages \in SeqsUpTo(HeadStages, 1)} \cup OddData

NoResult ==
    [recommended_tier |-> "", scored |-> FALSE, error |-> "", reasoning |-> "",
     analysis |-> NoAnalysis]

NoSuggestion == [some |-> FALSE, tier |-> <<>>]

-----------------------------------------------------------------------------
(* The scorer as a state machine                                           *)

\* result as validate_processor_file creates it
NewValidation ==
    [valid |-> TRUE, errors |-> <<>>, warnings |-> <<>>, raised |-> ""]

\* a unittest method that has not run
NotRun == [verdict |-> "not_run", named |-> <<>>]

StrictTests ==
    {"test_dlq_connections_exist", "test_merge_connections_exist",
     "test_pipeline_has_output_stage", "test_pipeline_has_source_stage",
     "test_source_connections_exist"}

NoFile == [json_ok |-> FALSE, processor |-> VNone, stem |-> <<>>]

ValidatorIdle ==
    /\ processor_file = NoFile
    /\ connection_names = <<>>
    /\ validate_pc = "idle"
    /\ validation = NewValidation
    /\ strict_pc = "idle"
    /\ strict = [test \in StrictTests |-> NotRun]

\* an average, kept as the exact quotient num / den
Quotient(num, den) == [num |-> num, den |-> den]

NoStats == [min |-> 0, max |-> 0, avg |-> Quotient(0, 1), trend |-> ""]

TrendIdle ==
    /\ values = <<>>
    /\ stats_pc = "idle"
    /\ metric_stats = NoStats

\* sample = {"timestamp": ..., "processors": [], "alerts": []}
NewSample == [processors |-> <<>>, alerts |-> <<>>]

NoThresholds ==
    [keys |-> {}, memory_mb |-> 0, latency_p99_ms |-> 0, throughput_min |-> 0]

NoProfile ==
    [error |-> "not returned", sample_count |-> 0, duration_seconds |-> 0,
     interval_seconds |-> 0, alerts |-> <<>>, processors |-> <<>>]

NoSeries == [memory_mb |-> <<>>, latency_p99_ms |-> <<>>,
             throughput_per_sec |-> <<>>]

RecommendIdle ==
    /\ metric_series = NoSeries
    /\ recommend_pc = "idle"
    /\ recommendations = <<>>

NoResults == [total |-> 0, valid |-> 0, invalid |-> 0, files |-> <<>>]

SuiteIdle ==
    /\ processor_files = <<>>
    /\ results = NoResults
    /\ suite_pc = "idle"

NoStart == [status |-> "none", tier |-> <<>>, http_code |-> 0]

StarterIdle ==
    /\ requested_tier = <<>>
    /\ sent = <<>>
    /\ suggested_tier = NoSuggestion
    /\ start_pc = "idle"
    /\ start_result = NoStart

RestIdle == RecommendIdle /\ SuiteIdle /\ StarterIdle

\* no fetch was made yet
NoFetch ==
    [raised |-> "", success |-> 0,
     stats |-> [inputMessageCount |-> 0, outputMessageCount |-> 0,
                dlqMessageCount |-> 0, memoryUsageBytes |-> 0,
                scaleFactor |-> 1]]

ProfilerIdle ==
    /\ profile_mode = "none"
    /\ processor_names = <<>>
    /\ interval = 0
    /\ duration = 0
    /\ thresholds = NoThresholds
    /\ samples = <<>>
    /\ sample = NewSample
    /\ next_processor = 0
    /\ profile_pc = "idle"
    /\ printed = <<>>
    /\ profile = NoProfile
    /\ now = 0
    /\ interrupted = FALSE
    /\ stats_result = NoFetch
    /\ timestamp = 0

ParserIdle ==
    /\ error_text = VNone
    /\ parse_pc = "idle"
    /\ suggested = NoSuggestion

PermuteIdle ==
    /\ permuted_data = VNone
    /\ permuted_pc = "idle"
    /\ permuted_result = NoResult

\* the local file exists and parses, or it does not parse, or there is no
\* file and the control plane answers 200, another status, or the request raises
InitLoader ==
    \/ loader = "local" /\ processor_data \in ProcessorDataSet
    \/ loader = "api_200" /\ processor_data \in ApiDataSet
    \/ loader \in {"local_invalid", "api_other", "api_raises"}
       /\ processor_data = VNone

Init ==
    /\ InitLoader
    /\ pc = "start"
    /\ result = NoResult
    /\ PermuteIdle
    /\ ParserIdle
    /\ ValidatorIdle
    /\ TrendIdle
    /\ ProfilerIdle
    /\ RestIdle

\* one call of analyze_processor_complexity_detailed
Analyze ==
    /\ pc = "start"
    /\ result' = analyze_processor_complexity_detailed(loader, processor_data)
    /\ pc' = "done"
    /\ UNCHANGED <<loader, processor_data, permuted_data, permuted_pc,
                   permuted_result, error_text, parse_pc, suggested,
                   validator_vars, trend_vars, profiler_vars,
                   rest_vars>>

Next == Analyze

Spec == Init /\ [][Next]_vars

-----------------------------------------------------------------------------
(* Properties of the scorer                                                *)

Scored == pc = "done" /\ result.scored

\* position in the ordered tier table SP2 < SP5 < SP10 < SP30 < SP50
TierRank(tier) ==
    CASE tier = "SP2" -> 1 [] tier = "SP5" -> 2 [] tier = "SP10" -> 3
      [] tier = "SP30" -> 4 [] tier = "SP50" -> 5 [] OTHER -> 0

\* the stages of the pipeline the call was given
InputStages ==
    IF IsDict(processor_data) /\ HasKey(processor_data, k_pipeline)
    THEN Elements(Get(processor_data, k_pipeline))
    ELSE <<>>

\* C1: for every pipeline that is found and scored, recommended_tier is the
\* higher, by position in the table SP2 < SP5 < SP10 < SP30 < SP50, of the
\* complexity-derived and the parallelism-derived tier, never lower than either.
C1_HigherOfTheTwoTiers ==
    Scored =>
        LET a == result.analysis
        IN  /\ result.recommended_tier \in {a.complexity_tier, a.parallelism_tier}
            /\ TierRank(result.recommended_tier) >= TierRank(a.complexity_tier)
            /\ TierRank(result.recommended_tier) >= TierRank(a.parallelism_tier)
            /\ TierRank(result.recommended_tier) >= 1

\* a pipeline whose parallelism tier SP10 is above its complexity tier SP5,
\* although "SP10" sorts before "SP5" by name
C1_Witness ==
    /\ Scored
    /\ result.analysis.complexity_tier = "SP5"
    /\ result.analysis.parallelism_tier = "SP10"
    /\ result.recommended_tier = "SP10"

\* C2: complexity_score < 10 and total_parallelism <= 1 give the lowest tier.
C2_LowScoreLowestTier ==
    (Scored /\ result.analysis.complexity_score < 10
            /\ result.analysis.total_parallelism <= 1)
        => result.recommended_tier = "SP2"

C2_Witness ==
    /\ Scored
    /\ result.analysis.complexity_score \in 1..9
    /\ result.analysis.total_parallelism <= 1
    /\ result.recommended_tier = "SP2"

\* the parallelism fields at the top level of an operator configuration and
\* one level inside its "into" sub-object, over all stages
ClaimedFields(stages) ==
    UNION {
        UNION {
            (IF IsDict(stages[i].items[p].v)
                /\ HasKey(stages[i].items[p].v, k_parallelism)
             THEN {[stage |-> i, key |-> stages[i].items[p].k, level |-> "config",
                    v |-> Get(stages[i].items[p].v, k_parallelism)]}
             ELSE {})
            \cup
            (IF IsDict(stages[i].items[p].v)
                /\ HasKey(stages[i].items[p].v, k_into)
                /\ IsDict(Get(stages[i].items[p].v, k_into))
                /\ HasKey(Get(stages[i].items[p].v, k_into), k_parallelism)
             THEN {[stage |-> i, key |-> stages[i].items[p].k, level |-> "into",
                    v |-> Get(Get(stages[i].items[p].v, k_into), k_parallelism)]}
             ELSE {})
            : p \in 1..Len(stages[i].items)}
        : i \in {j \in 1..Len(stages) : IsDict(stages[j])}}

\* twice the numeric value of a field
Halves(v) == IF v.t = "float" THEN v.n ELSE 2 * v.n

\* the value of a field cut to its integer part
IntegerPart(v) ==
    IF Halves(v) >= 0 THEN Halves(v) \div 2 ELSE -((-Halves(v)) \div 2)

\* the entries of parallelism_details recorded for a field
EntriesOf(f) ==
    {e \in 1..Len(result.analysis.parallelism_details) :
        LET d == result.analysis.parallelism_details[e]
        IN  d.stage = f.stage /\ d.key = f.key /\ d.level = f.level}

\* the sum of one field over a sequence of records
RECURSIVE SumOf(_, _)
SumOf(records, name) ==
    IF records = <<>> THEN 0
    ELSE Head(records)[name] + SumOf(Tail(records), name)

\* total_parallelism and the parallelism points in complexity_score are the
\* sums over the recorded entries
TotalsFollowEntries ==
    LET a == result.analysis
    IN  /\ a.total_parallelism = SumOf(a.parallelism_details, "contribution")
        /\ a.complexity_score - SumOf(a.complexity_factors, "weight")
              = 5 * SumOf(a.parallelism_details, "parallelism_val")

\* C3 as stated: a numeric field with value v > 1 adds exactly v - 1 to
\* total_parallelism and 5*v to complexity_score; a field equal to 1 or
\* absent adds nothing.
C3_Original ==
    Scored =>
        /\ TotalsFollowEntries
        /\ \A f \in ClaimedFields(InputStages) :
              IF IsNumber(f.v) /\ Halves(f.v) > 2
              THEN /\ Cardinality(EntriesOf(f)) = 1
                   /\ \A e \in EntriesOf(f) :
                        LET d == result.analysis.parallelism_details[e]
                        IN  /\ 2 * d.contribution = Halves(f.v) - 2
                            /\ 2 * d.parallelism_val = Halves(f.v)
              ELSE EntriesOf(f) = {}

\* C3 (amended): a numeric parallelism field at the top level of an operator
\* configuration or one level inside its "into" sub-object is first cut to its
\* integer part t; t > 1 adds exactly t - 1 to total_parallelism and 5*t to
\* complexity_score, and a field with t <= 1, a non-numeric or an absent field
\* adds nothing.
C3_TruncatedParallelism ==
    Scored =>
        /\ TotalsFollowEntries
        /\ \A f \in ClaimedFields(InputStages) :
              IF IsNumber(f.v) /\ IntegerPart(f.v) > 1
              THEN /\ Cardinality(EntriesOf(f)) = 1
                   /\ \A e \in EntriesOf(f) :
                        LET d == result.analysis.parallelism_details[e]
                        IN  /\ d.contribution = IntegerPart(f.v) - 1
                            /\ d.parallelism_val = IntegerPart(f.v)
              ELSE EntriesOf(f) = {}
        /\ (\A f \in ClaimedFields(InputStages) : f.v = VInt(1))
           /\ (\A e \in 1..Len(result.analysis.parallelism_details) :
                 result.analysis.parallelism_details[e].level # "stage")
              => result.analysis.total_parallelism = 0
        /\ (\E f \in ClaimedFields(InputStages) : f.v = VInt(10))
              => /\ result.analysis.total_parallelism >= 9
                 /\ result.analysis.complexity_score >= 50

\* a scored pipeline with a fractional field above 1 that was counted, and
\* with a field equal to 1 that was not
C3_Witness ==
    /\ Scored
    /\ \E f \in ClaimedFields(InputStages) :
          f.v.t = "float" /\ Halves(f.v) > 2 /\ EntriesOf(f) # {}
    /\ \E f \in ClaimedFields(InputStages) : f.v = VInt(1) /\ EntriesOf(f) = {}

\* the call was given the end-to-end scenario pipeline and has returned
ScenarioDone ==
    pc = "done" /\ processor_data = Processor(ScenarioPipeline)

\* the factors of one kind recorded in the result
FactorsOfKind(kind) ==
    {e \in 1..Len(result.analysis.complexity_factors) :
        result.analysis.complexity_factors[e].kind = kind}

\* C4 as stated: for [source, grouping, sort, merge with parallelism 9 inside
\* "into"] there is no length bonus and no connection bonus, complexity_score
\* is 70, total_parallelism is 8, both derived tiers are the same tier, which
\* is the final tier, and the reasoning is complexity-driven.
C4_Original ==
    ScenarioDone =>
        /\ result.scored
        /\ FactorsOfKind("length") = {}
        /\ FactorsOfKind("connections") = {}
        /\ result.analysis.complexity_score = 70
        /\ result.analysis.total_parallelism = 8
        /\ result.analysis.complexity_tier = result.analysis.parallelism_tier
        /\ result.recommended_tier = result.analysis.complexity_tier
        /\ result.reasoning = "Complexity-driven"

\* C4 (amended): for that pipeline the 4 stages earn the +5 length bonus
\* (4 > 3) and no connection bonus (2 connections), complexity_score is
\* 15 + 10 + 45 + 5 = 75, total_parallelism is 8, the complexity tier is SP30,
\* the parallelism tier is SP10, the final tier is SP30 and the reasoning is
\* complexity-driven.
C4_ScenarioScores75 ==
    ScenarioDone =>
        /\ result.scored
        /\ Cardinality(FactorsOfKind("length")) = 1
        /\ \A e \in FactorsOfKind("length") :
              result.analysis.complexity_factors[e].weight = 5
        /\ FactorsOfKind("connections") = {}
        /\ result.analysis.pipeline_stages = 4
        /\ result.analysis.connections_count = 2
        /\ result.analysis.complexity_score = 75
        /\ result.analysis.total_parallelism = 8
        /\ result.analysis.complexity_tier = "SP30"
        /\ result.analysis.parallelism_tier = "SP10"
        /\ result.recommended_tier = "SP30"
        /\ result.reasoning = "Complexity-driven"

C4_Witness ==
    /\ ScenarioDone
    /\ result.scored
    /\ Len(result.analysis.parallelism_details) = 1
    /\ result.analysis.parallelism_details[1].level = "into"
    /\ result.analysis.parallelism_details[1].parallelism_val = 9

\* scores and totals next to the one reached, on which the mappings are compared
Near(n) == (n - 5)..(n + 5)

\* C5: complexity_score >= 80 maps to SP50, 50..79 to SP30, 25..49 to SP10,
\* 10..24 to SP5 and < 10 to SP2; the mapping is total and non-decreasing.
C5_ComplexityBands ==
    Scored =>
        LET score == result.analysis.complexity_score
            tier == result.analysis.complexity_tier
        IN  /\ score >= 80 => tier = "SP50"
            /\ (score >= 50 /\ score <= 79) => tier = "SP30"
            /\ (score >= 25 /\ score <= 49) => tier = "SP10"
            /\ (score >= 10 /\ score <= 24) => tier = "SP5"
            /\ score < 10 => tier = "SP2"
            /\ \A s \in Near(score) :
                  /\ TierRank(recommended_tier(s)) >= 1
                  /\ s <= score =>
                        TierRank(recommended_tier(s)) <= TierRank(tier)
                  /\ s >= score =>
                        TierRank(recommended_tier(s)) >= TierRank(tier)

\* pipelines scoring exactly on a threshold
C5_Witness ==
    /\ Scored
    /\ result.analysis.complexity_score \in {10, 25, 50, 80}
    /\ result.analysis.complexity_tier
          = (CASE result.analysis.complexity_score = 10 -> "SP5"
               [] result.analysis.complexity_score = 25 -> "SP10"
               [] result.analysis.complexity_score = 50 -> "SP30"
               [] result.analysis.complexity_score = 80 -> "SP50")

\* C6: total_parallelism > 48 maps to SP50, > 8 to SP30, > 1 to SP10, = 1 to
\* SP5 and 0 to SP2; the bands are disjoint, cover every non-negative total,
\* and the mapping is non-decreasing.
C6_ParallelismBands ==
    Scored =>
        LET total == result.analysis.total_parallelism
            tier == result.analysis.parallelism_tier
        IN  /\ total >= 0
            /\ total > 48 => tier = "SP50"
            /\ (total > 8 /\ total <= 48) => tier = "SP30"
            /\ (total > 1 /\ total <= 8) => tier = "SP10"
            /\ total = 1 => tier = "SP5"
            /\ total = 0 => tier = "SP2"
            /\ \A n \in Near(total) :
                  n >= 0 =>
                    /\ TierRank(min_tier_from_parallelism(n)) >= 1
                    /\ n <= total =>
                          TierRank(min_tier_from_parallelism(n)) <= TierRank(tier)
                    /\ n >= total =>
                          TierRank(min_tier_from_parallelism(n)) >= TierRank(tier)

\* a pipeline whose total is exactly 1, the band between "0" and "> 1"
C6_Witness ==
    /\ Scored
    /\ result.analysis.total_parallelism = 1
    /\ result.analysis.parallelism_tier = "SP5"

\* the definition was found neither locally nor through the control plane
NotLocated ==
    \/ loader \in {"api_other", "api_raises"}
    \/ loader \in {"local", "api_200"}
       /\ processor_data \in {VNone, VDict(<<>>), VList(<<>>), VStr(<<>>), VInt(0)}

\* a value that supports neither iteration nor a membership test
IsScalar(v) == v.t \in {"int", "float", "nan", "bool", "none"}

\* the definition cannot be parsed, or walking it fails: the file is not
\* JSON, the definition is not a mapping, the pipeline or one of its stages
\* is a number or null, or a parallelism field read by the scorer is not a
\* number that converts to an integer
NotWalkable ==
    \/ loader = "local_invalid"
    \/ loader \in {"local", "api_200"} /\ ~NotLocated /\
         \/ ~IsDict(processor_data)
         \/ HasKey(processor_data, k_pipeline)
            /\ IsScalar(Get(processor_data, k_pipeline))
         \/ \E i \in 1..Len(InputStages) : IsScalar(InputStages[i])
         \/ \E f \in ClaimedFields(InputStages) : f.v = VNaN

\* some stage of the pipeline is not a mapping
SomeStageNotAMapping ==
    /\ loader \in {"local", "api_200"}
    /\ \E i \in 1..Len(InputStages) : ~IsDict(InputStages[i])

\* C8 as stated: a pipeline that cannot be located, or cannot be parsed or
\* walked - e.g. one with a stage that is not a mapping - yields SP10 with an
\* explanatory error note.
C8_Original ==
    (pc = "done" /\ (NotLocated \/ NotWalkable \/ SomeStageNotAMapping))
        => /\ result.recommended_tier = "SP10"
           /\ result.error # ""

\* C8 (amended): a pipeline that cannot be located, or whose parsing or walk
\* fails (e.g. a stage that is a number or null), yields SP10 with an
\* explanatory error note and no exception reaches the caller; a stage that is
\* a string or a list is not a failure: it is walked and scored.
C8_FailureYieldsDefaultTier ==
    pc = "done" =>
        /\ NotLocated =>
              /\ result.recommended_tier = "SP10"
              /\ result.error = "Processor not found locally or in Atlas"
              /\ ~result.scored
        /\ NotWalkable =>
              /\ result.recommended_tier = "SP10"
              /\ result.error # ""
              /\ ~result.scored
        /\ ~(NotLocated \/ NotWalkable) =>
              /\ result.scored
              /\ result.error = ""
              /\ TierRank(result.recommended_tier) >= 1

\* a walk that failed on a stage that is a number
C8_Witness ==
    /\ pc = "done"
    /\ \E i \in 1..Len(InputStages) : InputStages[i] = NumberStage
    /\ result.recommended_tier = "SP10"
    /\ result.error = "TypeError"

-----------------------------------------------------------------------------
(* _parse_tier_validation_error                                            *)

\* the literal text of the two patterns
MinimumTierPhrase ==
    <<"M","i","n","i","m","u","m"," ","t","i","e","r"," ","f","o","r"," ",
      "t","h","i","s"," ","w","o","r","k","l","o","a","d",":"," ">>

RequestedPhrase ==
    <<"R","e","q","u","e","s","t","e","d",":"," ">>

k_SP == <<"S","P">>

\* \d
IsDigit(c) == \E d \in 1..10 : DigitChars[d] = c

\* the greedy match of \d+ at position p: the end of the run of digits
RECURSIVE DigitRunEnd(_, _)
DigitRunEnd(text, p) ==
    IF p + 1 <= Len(text) /\ IsDigit(text[p + 1])
    THEN DigitRunEnd(text, p + 1)
    ELSE p

\* a match of  literal \d+  starts at position p
PatternAt(literal, text, p) ==
    /\ MatchesAt(literal, text, p)
    /\ p + Len(literal) <= Len(text)
    /\ IsDigit(text[p + Len(literal)])

\* re.search(literal (\d+)): the leftmost match, as the positions of the
\* digits; found is FALSE when there is none
Search(literal, text) ==
    IF \E p \in 1..Len(text) : PatternAt(literal, text, p)
    THEN LET start == CHOOSE p \in 1..Len(text) :
                          /\ PatternAt(literal, text, p)
                          /\ \A q \in 1..(p - 1) : ~PatternAt(literal, text, q)
             first == start + Len(literal)
         IN  [found |-> TRUE, first |-> first, last |-> DigitRunEnd(text, first)]
    ELSE [found |-> FALSE, first |-> 0, last |-> 0]

\* int(digits)
RECURSIVE ParseInt(_)
ParseInt(digits) ==
    IF digits = <<>> THEN 0
    ELSE 10 * ParseInt(SubSeq(digits, 1, Len(digits) - 1))
         + (CHOOSE d \in 0..9 : DigitChars[d + 1] = digits[Len(digits)])

Suggestion(tier) == [some |-> TRUE, tier |-> tier]

\* the outcome of a try block that left by an exception
TypeErrorRaised == [some |-> FALSE, tier |-> <<"TypeError">>]

\* a handler that lets the exception through
except_pass_reraise(outcome) == outcome

\* except: pass, followed by return None
except_pass(outcome) ==
    IF outcome = TypeErrorRaised THEN NoSuggestion ELSE outcome

\* tier_for_requested_parallelism with inclusive thresholds
tier_for_requested_parallelism_inclusive(requested_parallelism) ==
    IF requested_parallelism >= 8 THEN <<"S","P","5","0">>
    ELSE IF requested_parallelism >= 4 THEN <<"S","P","3","0">>
    ELSE IF requested_parallelism >= 2 THEN <<"S","P","1","0">>
    ELSE <<"S","P","5">>

\* the bands of the "parallelism limit" fallback
tier_for_requested_parallelism(requested_parallelism) ==
    IF requested_parallelism > 8 THEN <<"S","P","5","0">>
    ELSE IF requested_parallelism > 4 THEN <<"S","P","3","0">>
    ELSE IF requested_parallelism > 2 THEN <<"S","P","1","0">>
    ELSE <<"S","P","5">>

\* parse_tier_validation_error trying the requested-parallelism pattern first
parse_tier_validation_error_fallback_first(text) ==
    IF text.t # "str" THEN NoSuggestion
    ELSE LET match == Search(MinimumTierPhrase \o k_SP, text.s)
             parallelism_match == Search(RequestedPhrase, text.s)
         IN  IF parallelism_match.found
             THEN Suggestion(tier_for_requested_parallelism(
                      ParseInt(SubSeq(text.s, parallelism_match.first,
                                      parallelism_match.last))))
             ELSE IF match.found
             THEN Suggestion(k_SP \o SubSeq(text.s, match.first, match.last))
             ELSE NoSuggestion

\* the whole call; re.search raises TypeError for an argument that is not
\* text, and the handler turns that into None
parse_tier_validation_error(text) ==
    except_pass(
        IF text.t # "str" THEN TypeErrorRaised
        ELSE LET match == Search(MinimumTierPhrase \o k_SP, text.s)
                 parallelism_match == Search(RequestedPhrase, text.s)
             IN  IF match.found
                 THEN Suggestion(k_SP \o SubSeq(text.s, match.first, match.last))
                 ELSE IF parallelism_match.found
                 THEN Suggestion(tier_for_requested_parallelism(
                          ParseInt(SubSeq(text.s, parallelism_match.first,
                                          parallelism_match.last))))
                 ELSE NoSuggestion)

\* the pieces error texts are assembled from
Fragments ==
    {MinimumTierPhrase, RequestedPhrase, k_SP,
     <<"S","P","3","0"," ","o","r"," ","l","a","r","g","e","r">>,
     <<"S","P","5">>,
     <<"2">>, <<"3">>, <<"4">>, <<"5">>, <<"8">>, <<"9">>}

RECURSIVE Concat(_)
Concat(pieces) ==
    IF pieces = <<>> THEN <<>> ELSE Head(pieces) \o Concat(Tail(pieces))

ErrorTextSet ==
    {VStr(Concat(pieces)) : pieces \in SeqsUpTo(Fragments, MaxFragments)}
    \cup {VNone, VInt(5)}

ScorerIdle ==
    /\ loader = "none"
    /\ processor_data = VNone
    /\ pc = "idle"
    /\ result = NoResult

InitParser ==
    /\ error_text \in ErrorTextSet
    /\ parse_pc = "start"
    /\ suggested = NoSuggestion
    /\ ScorerIdle
    /\ PermuteIdle
    /\ ValidatorIdle
    /\ TrendIdle
    /\ ProfilerIdle
    /\ RestIdle

\* one call of _parse_tier_validation_error
Parse ==
    /\ parse_pc = "start"
    /\ suggested' = parse_tier_validation_error(error_text)
    /\ parse_pc' = "done"
    /\ UNCHANGED <<loader, processor_data, pc, result, permuted_data,
                   permuted_pc, permuted_result, error_text, validator_vars,
                   trend_vars, profiler_vars,
                   rest_vars>>

NextParser == Parse

SpecParser == InitParser /\ [][NextParser]_vars

-----------------------------------------------------------------------------
(* Properties of the error parser                                          *)

Parsed == parse_pc = "done" /\ error_text.t = "str"

\* characters p..(p + n - 1) of the text are digits and the run ends there
DigitRun(text, p, n) ==
    /\ n >= 1
    /\ p + n - 1 <= Len(text)
    /\ \A q \in p..(p + n - 1) : IsDigit(text[q])
    /\ (p + n <= Len(text)) => ~IsDigit(text[p + n])

\* the text reads  phrase <digits>  from position p on
ReadsAt(phrase, text, p) ==
    /\ p + Len(phrase) <= Len(text)
    /\ SubSeq(text, p, p + Len(phrase) - 1) = phrase
    /\ IsDigit(text[p + Len(phrase)])

Occurs(phrase, text) == \E p \in 1..Len(text) : ReadsAt(phrase, text, p)

FirstOccurrence(phrase, text) ==
    CHOOSE p \in 1..Len(text) :
        ReadsAt(phrase, text, p) /\ \A q \in 1..(p - 1) : ~ReadsAt(phrase, text, q)

MinimumTierSP == MinimumTierPhrase \o <<"S", "P">>

\* C9: whenever the text contains "Minimum tier for this workload: <TIER>",
\* the parser returns <TIER> (of the first such phrase) verbatim, also when
\* the requested-parallelism pattern is present in the same text.
C9_MinimumTierVerbatim ==
    (Parsed /\ Occurs(MinimumTierSP, error_text.s)) =>
        LET text == error_text.s
            digits == FirstOccurrence(MinimumTierSP, text) + Len(MinimumTierSP)
        IN  /\ suggested.some
            /\ \E n \in 1..Len(text) :
                  /\ DigitRun(text, digits, n)
                  /\ suggested.tier = SubSeq(text, digits - 2, digits + n - 1)

\* a text with both patterns, where the fallback would have said SP50
C9_Witness ==
    /\ parse_pc = "done"
    /\ error_text = VStr(RequestedPhrase \o <<"9">> \o MinimumTierPhrase
                         \o <<"S","P","5">>)
    /\ suggested = [some |-> TRUE, tier |-> <<"S","P","5">>]

RECURSIVE NumberOf(_, _, _)
NumberOf(text, p, n) ==
    IF n = 0 THEN 0
    ELSE 10 * NumberOf(text, p, n - 1)
         + (CHOOSE d \in 0..9 : DigitChars[d + 1] = text[p + n - 1])

\* the requested parallelism the text states first
RequestedNumber(text) ==
    LET digits == FirstOccurrence(RequestedPhrase, text) + Len(RequestedPhrase)
        n == CHOOSE m \in 1..Len(text) : DigitRun(text, digits, m)
    IN  NumberOf(text, digits, n)

TextRank(tier) ==
    CASE tier = <<"S","P","5">> -> 2 [] tier = <<"S","P","1","0">> -> 3
      [] tier = <<"S","P","3","0">> -> 4 [] tier = <<"S","P","5","0">> -> 5
      [] OTHER -> 0

-----------------------------------------------------------------------------
(* The scorer called on a pipeline and on a permutation of it              *)

PermVocabulary ==
    {KafkaSourceStage, GroupStage, MergeInto9Stage, Merge2Stage, NumberStage}

\* every reordering of a short pipeline
Reorderings(stages) ==
    {[p \in 1..Len(stages) |-> stages[f[p]]] : f \in Permutations(1..Len(stages))}

\* every exchange of two stages of a long pipeline
Exchanges(stages) ==
    {[p \in 1..Len(stages) |->
         IF p = j THEN stages[k] ELSE IF p = k THEN stages[j] ELSE stages[p]]
     : j \in 1..Len(stages), k \in 1..Len(stages)}

LongPipelines ==
    {ScenarioPipeline \o Pad(pad, n) : pad \in PadStages, n \in 1..MaxPad}

InitPermute ==
    /\ loader = "local"
    /\ \E stages \in SeqsUpTo(PermVocabulary, MaxPermLen) \cup LongPipelines :
          /\ processor_data = Processor(stages)
          /\ \E other \in (IF Len(stages) <= MaxPermLen
                           THEN Reorderings(stages) ELSE Exchanges(stages)) :
                permuted_data = Processor(other)
    /\ pc = "start"
    /\ result = NoResult
    /\ permuted_pc = "start"
    /\ permuted_result = NoResult
    /\ ParserIdle
    /\ ValidatorIdle
    /\ TrendIdle
    /\ ProfilerIdle
    /\ RestIdle

\* the second call, on the permuted pipeline
AnalyzePermuted ==
    /\ pc = "done"
    /\ permuted_pc = "start"
    /\ permuted_result' = analyze_processor_complexity_detailed(loader, permuted_data)
    /\ permuted_pc' = "done"
    /\ UNCHANGED <<loader, processor_data, pc, result, permuted_data,
                   error_text, parse_pc, suggested, validator_vars,
                   trend_vars, profiler_vars,
                   rest_vars>>

NextPermute == Analyze \/ AnalyzePermuted

SpecPermute == InitPermute /\ [][NextPermute]_vars

\* the weight the claim gives each operator class
ClaimedWeight(kind) ==
    CASE kind = "function" -> 40 [] kind = "window" -> 30 [] kind = "facet" -> 25
      [] kind = "lookup" -> 20 [] kind = "group" -> 15 [] kind = "sort" -> 10
      [] kind = "kafka" -> 15

OperatorKinds == {"function", "window", "facet", "lookup", "group", "sort", "kafka"}

\* the operator class is present in a stage, given str(stage) and its
\* lower-case form
ClassPresent(kind, text, lower) ==
    CASE kind = "function" -> Contains(k_function, text)
      [] kind = "window"   -> Contains(k_window, text)
      [] kind = "facet"    -> Contains(k_facet, text)
      [] kind = "lookup"   -> Contains(k_lookup, text)
      [] kind = "group"    -> Contains(k_group, text)
      [] kind = "sort"     -> Contains(k_sort, text)
      [] kind = "kafka"    -> Contains(k_kafka, lower)

\* the bonus of the band a count falls in
ClaimedLengthBonus(n) ==
    IF n > 8 THEN 20 ELSE IF n > 5 THEN 10 ELSE IF n > 3 THEN 5 ELSE 0

ClaimedConnectionBonus(n) == IF n > 4 THEN 15 ELSE IF n > 2 THEN 10 ELSE 0

\* the recorded factors are one per class present per stage, at the fixed
\* weight, plus at most one length and one connection bonus
FactorsAsClaimed ==
    LET a == result.analysis
        factors == a.complexity_factors
        stages == InputStages
        text == [i \in 1..Len(stages) |-> Str(stages[i])]
        lower == [i \in 1..Len(stages) |-> Lower(text[i])]
        at(i, kind) == {e \in 1..Len(factors) :
                           factors[e].stage = i /\ factors[e].kind = kind}
    IN  /\ \A i \in 1..Len(stages) : \A kind \in OperatorKinds :
              /\ Cardinality(at(i, kind))
                    = (IF ClassPresent(kind, text[i], lower[i]) THEN 1 ELSE 0)
              /\ \A e \in at(i, kind) : factors[e].weight = ClaimedWeight(kind)
        /\ \A e \in 1..Len(factors) :
              \/ factors[e].kind \in OperatorKinds
                 /\ factors[e].stage \in 1..Len(stages)
              \/ factors[e].kind \in {"length", "connections"}
        /\ Cardinality(FactorsOfKind("length"))
              = (IF ClaimedLengthBonus(a.pipeline_stages) > 0 THEN 1 ELSE 0)
        /\ \A e \in FactorsOfKind("length") :
              factors[e].weight = ClaimedLengthBonus(a.pipeline_stages)
        /\ Cardinality(FactorsOfKind("connections"))
              = (IF ClaimedConnectionBonus(a.connections_count) > 0 THEN 1 ELSE 0)
        /\ \A e \in FactorsOfKind("connections") :
              factors[e].weight = ClaimedConnectionBonus(a.connections_count)

-----------------------------------------------------------------------------
(* The validators of processor files: validate_processor_file of           *)
(* test_runner.py and the unittest methods of test_processors.py           *)

k_emit == <<"$","e","m","i","t">>
k_addFields == <<"$","a","d","d","F","i","e","l","d","s">>
k_connectionName == <<"c","o","n","n","e","c","t","i","o","n","N","a","m","e">>
k_options == <<"o","p","t","i","o","n","s">>
k_dlq == <<"d","l","q">>

\* an entry of result["errors"] or result["warnings"]: its fixed text and the
\* connection the f-string puts into it, if any
Message(text) == [text |-> text, named |-> <<>>]
Naming(text, conn) == [text |-> text, named |-> <<conn>>]

Error(res, message) ==
    [res EXCEPT !.errors = Append(@, message), !.valid = FALSE]
Warn(res, message) == [res EXCEPT !.warnings = Append(@, message)]
Throw(res, exception) == [res EXCEPT !.raised = exception]

\* processor.get("pipeline", [])
PipelineOf(processor) ==
    IF HasKey(processor, k_pipeline) THEN Get(processor, k_pipeline)
    ELSE VList(<<>>)

\* conn in connections
Known(conn, connections) ==
    \E p \in 1..Len(connections) : connections[p] = conn

\* "Test 2: Required fields"
RequiredFields(res, processor) ==
    IF InRaises(processor) THEN Throw(res, "TypeError")
    ELSE LET r1 == IF ~InStage(k_pipeline, processor)
                   THEN Error(res, Message("Missing required 'pipeline' field"))
                   ELSE res
         IN  IF ~IsDict(processor) THEN Throw(r1, "AttributeError")
             ELSE LET pipeline == PipelineOf(processor)
                      r2 == IF pipeline.t # "list"
                            THEN Error(r1, Message("'pipeline' must be a list"))
                            ELSE r1
                  IN  IF IterRaises(pipeline) THEN Throw(r2, "TypeError")
                      ELSE IF Len(Elements(pipeline)) = 0
                      THEN Error(r2, Message("'pipeline' cannot be empty"))
                      ELSE r2

\* pipeline[0] raises KeyError on a mapping (its keys are text)
FirstRaises(pipeline) == pipeline.t = "dict"
First(pipeline) == Elements(pipeline)[1]

\* a source rule that only warns
SourceRule_warning(res, pipeline) ==
    IF res.raised # "" \/ Falsy(pipeline) THEN res
    ELSE IF FirstRaises(pipeline) THEN Throw(res, "KeyError")
    ELSE IF InRaises(First(pipeline)) THEN Throw(res, "TypeError")
    ELSE IF ~InStage(k_source, First(pipeline))
    THEN Warn(res, Message("First pipeline stage must be '$source'"))
    ELSE res

\* "Test 3: First stage must be $source"
SourceRule(res, pipeline) ==
    IF res.raised # "" \/ Falsy(pipeline) THEN res
    ELSE IF FirstRaises(pipeline) THEN Throw(res, "KeyError")
    ELSE IF InRaises(First(pipeline)) THEN Throw(res, "TypeError")
    ELSE IF ~InStage(k_source, First(pipeline))
    THEN Error(res, Message("First pipeline stage must be '$source'"))
    ELSE res

\* any(any(stage_key in stage for stage_key in output_stages)
\*     for stage in pipeline): "yes", "no", or "raises" when a stage that does
\* not support  in  comes before the first output stage
RECURSIVE HasOutput(_, _, _)
HasOutput(stages, i, output_stages) ==
    IF i > Len(stages) THEN "no"
    ELSE IF InRaises(stages[i]) THEN "raises"
    ELSE IF \E stage_key \in output_stages : InStage(stage_key, stages[i])
    THEN "yes"
    ELSE HasOutput(stages, i + 1, output_stages)

\* an output rule that fails the file
OutputRule_error(res, pipeline) ==
    IF res.raised # "" THEN res
    ELSE LET has_output == HasOutput(Elements(pipeline), 1, {k_merge, k_emit})
         IN  IF has_output = "raises" THEN Throw(res, "TypeError")
             ELSE IF has_output = "no"
             THEN Error(res, Message("No output stage found ($merge, $emit)"))
             ELSE res

\* "Test 4: Check for output stage"
OutputRule(res, pipeline) ==
    IF res.raised # "" THEN res
    ELSE LET has_output == HasOutput(Elements(pipeline), 1, {k_merge, k_emit})
         IN  IF has_output = "raises" THEN Throw(res, "TypeError")
             ELSE IF has_output = "no"
             THEN Warn(res, Message("No output stage found ($merge, $emit)"))
             ELSE res

\* the $source part of "Test 5: Check connection names exist"
SourceConnection(res, stage, connections) ==
    IF res.raised # "" THEN res
    ELSE IF InRaises(stage) THEN Throw(res, "TypeError")
    ELSE IF ~InStage(k_source, stage) THEN res
    ELSE IF ~IsDict(stage) THEN Throw(res, "TypeError")
    ELSE LET source == Get(stage, k_source)
         IN  IF InRaises(source) THEN Throw(res, "TypeError")
             ELSE IF ~InStage(k_connectionName, source) THEN res
             ELSE IF ~IsDict(source) THEN Throw(res, "TypeError")
             ELSE LET conn == Get(source, k_connectionName)
                  IN  IF ~Known(conn, connections)
                      THEN Warn(res, Naming("Unknown source connection", conn))
                      ELSE res

\* the $merge part
MergeConnection(res, stage, connections) ==
    IF res.raised # "" THEN res
    ELSE IF ~InStage(k_merge, stage) THEN res
    ELSE IF ~IsDict(stage) THEN Throw(res, "TypeError")
    ELSE LET merge == Get(stage, k_merge)
         IN  IF InRaises(merge) THEN Throw(res, "TypeError")
             ELSE IF ~InStage(k_into, merge) THEN res
             ELSE IF ~IsDict(merge) THEN Throw(res, "TypeError")
             ELSE LET into == Get(merge, k_into)
                  IN  IF IsDict(into) /\ HasKey(into, k_connectionName)
                         /\ ~Known(Get(into, k_connectionName), connections)
                      THEN Warn(res, Naming("Unknown merge connection",
                                            Get(into, k_connectionName)))
                      ELSE res

\* the $emit part
EmitConnection(res, stage, connections) ==
    IF res.raised # "" THEN res
    ELSE IF ~InStage(k_emit, stage) THEN res
    ELSE IF ~IsDict(stage) THEN Throw(res, "TypeError")
    ELSE LET emit == Get(stage, k_emit)
         IN  IF IsDict(emit) /\ HasKey(emit, k_connectionName)
                /\ ~Known(Get(emit, k_connectionName), connections)
             THEN Warn(res, Naming("Unknown emit connection",
                                   Get(emit, k_connectionName)))
             ELSE res

\* the loop of Test 5 over the stages
RECURSIVE ConnectionRule(_, _, _, _)
ConnectionRule(res, stages, i, connections) ==
    IF i > Len(stages) \/ res.raised # "" THEN res
    ELSE ConnectionRule(
             EmitConnection(
                 MergeConnection(
                     SourceConnection(res, stages[i], connections),
                     stages[i], connections),
                 stages[i], connections),
             stages, i + 1, connections)

\* "Test 6: Naming convention"
NamingRule(res, processor, filename) ==
    IF res.raised # "" THEN res
    ELSE IF HasKey(processor, k_name) /\ Get(processor, k_name) # VStr(filename)
    THEN Warn(res, Message("Processor name doesn't match filename"))
    ELSE res

\* except Exception
\* a handler that lets the exception pass
ValidationHandler_reraise(res) == res

\* except Exception as e: the error is recorded and the result returned
ValidationHandler(res) ==
    IF res.raised # ""
    THEN Error(res, Message("Validation error"))
    ELSE res

\* the whole call for the file (its JSON text parses or not, the value it
\* holds, the stem of its name) and the names load_valid_connections returns
validate_processor_file(file, connections) ==
    IF ~file.json_ok THEN Error(NewValidation, Message("Invalid JSON"))
    ELSE LET r2 == RequiredFields(NewValidation, file.processor)
             pipeline == IF r2.raised = "" THEN PipelineOf(file.processor)
                         ELSE VList(<<>>)
         IN  ValidationHandler(
                 NamingRule(
                     ConnectionRule(
                         OutputRule(SourceRule(r2, pipeline), pipeline),
                         Elements(pipeline), 1, connections),
                     file.processor, file.stem))

\* the outcome of one unittest method on the file: it passes, an assertion
\* fails (naming a connection, where its message does), or the method raises
Passed == [verdict |-> "ok", named |-> <<>>]
Failed == [verdict |-> "fail", named |-> <<>>]
FailedNaming(conn) == [verdict |-> "fail", named |-> <<conn>>]
Errored == [verdict |-> "error", named |-> <<>>]

\* json.load(f) followed by processor.get(...) raises
LoadRaises(file) == ~file.json_ok \/ ~IsDict(file.processor)

test_pipeline_has_source_stage(file) ==
    IF LoadRaises(file) THEN Errored
    ELSE LET pipeline == PipelineOf(file.processor)
         IN  IF Falsy(pipeline) THEN Passed
             ELSE IF IterRaises(pipeline) \/ FirstRaises(pipeline) THEN Errored
             ELSE IF InRaises(First(pipeline)) THEN Errored
             ELSE IF ~InStage(k_source, First(pipeline)) THEN Failed
             ELSE Passed

\* the strict output check without "$addFields"
strict_output_stages_without_addFields == {k_merge, k_emit}

\* output_stages of test_pipeline_has_output_stage
strict_output_stages == {k_merge, k_emit, k_addFields}

test_pipeline_has_output_stage(file) ==
    IF LoadRaises(file) THEN Errored
    ELSE LET pipeline == PipelineOf(file.processor)
         IN  IF Falsy(pipeline) THEN Passed
             ELSE IF IterRaises(pipeline) THEN Errored
             ELSE LET has_output == HasOutput(Elements(pipeline), 1,
                                              strict_output_stages)
                  IN  IF has_output = "raises" THEN Errored
                      ELSE IF has_output = "no" THEN Failed
                      ELSE Passed

\* self.assertIn(conn_name, self.valid_connections, ...)
assertKnown(conn_name, valid_connections) ==
    IF Known(conn_name, valid_connections) THEN Passed
    ELSE FailedNaming(conn_name)

\* value[key] is reached and is a mapping entry; otherwise the lookup is
\* skipped ("no") or raises
Lookup(value, key) ==
    IF InRaises(value) THEN "raises"
    ELSE IF ~InStage(key, value) THEN "no"
    ELSE IF ~IsDict(value) THEN "raises"
    ELSE "yes"

\* the body of the stage loop of test_source_connections_exist
SourceStageOutcome(stage, valid_connections) ==
    IF Lookup(stage, k_source) = "raises" THEN Errored
    ELSE IF Lookup(stage, k_source) = "no" THEN Passed
    ELSE LET source == Get(stage, k_source)
         IN  IF Lookup(source, k_connectionName) = "raises" THEN Errored
             ELSE IF Lookup(source, k_connectionName) = "no" THEN Passed
             ELSE assertKnown(Get(source, k_connectionName), valid_connections)

\* the body of the stage loop of test_merge_connections_exist
MergeStageOutcome(stage, valid_connections) ==
    IF Lookup(stage, k_merge) = "raises" THEN Errored
    ELSE IF Lookup(stage, k_merge) = "no" THEN Passed
    ELSE LET merge == Get(stage, k_merge)
         IN  IF Lookup(merge, k_into) = "raises" THEN Errored
             ELSE IF Lookup(merge, k_into) = "no" THEN Passed
             ELSE LET into == Get(merge, k_into)
                  IN  IF Lookup(into, k_connectionName) = "raises" THEN Errored
                      ELSE IF Lookup(into, k_connectionName) = "no" THEN Passed
                      ELSE assertKnown(Get(into, k_connectionName),
                                       valid_connections)

\* for stage in pipeline, up to the first assertion that fails or raises
RECURSIVE StageLoop(_, _, _, _)
StageLoop(kind, stages, i, valid_connections) ==
    IF i > Len(stages) THEN Passed
    ELSE LET outcome == IF kind = "source"
                        THEN SourceStageOutcome(stages[i], valid_connections)
                        ELSE MergeStageOutcome(stages[i], valid_connections)
         IN  IF outcome.verdict # "ok" THEN outcome
             ELSE StageLoop(kind, stages, i + 1, valid_connections)

test_source_connections_exist(file, valid_connections) ==
    IF LoadRaises(file) THEN Errored
    ELSE IF IterRaises(PipelineOf(file.processor)) THEN Errored
    ELSE StageLoop("source", Elements(PipelineOf(file.processor)), 1,
                   valid_connections)

test_merge_connections_exist(file, valid_connections) ==
    IF LoadRaises(file) THEN Errored
    ELSE IF IterRaises(PipelineOf(file.processor)) THEN Errored
    ELSE StageLoop("merge", Elements(PipelineOf(file.processor)), 1,
                   valid_connections)

test_dlq_connections_exist(file, valid_connections) ==
    IF LoadRaises(file) THEN Errored
    ELSE LET options == IF HasKey(file.processor, k_options)
                        THEN Get(file.processor, k_options) ELSE VDict(<<>>)
         IN  IF Lookup(options, k_dlq) = "raises" THEN Errored
             ELSE IF Lookup(options, k_dlq) = "no" THEN Passed
             ELSE LET dlq == Get(options, k_dlq)
                  IN  IF Lookup(dlq, k_connectionName) = "raises" THEN Errored
                      ELSE IF Lookup(dlq, k_connectionName) = "no" THEN Passed
                      ELSE assertKnown(Get(dlq, k_connectionName),
                                       valid_connections)

-----------------------------------------------------------------------------
(* The files the validators are run on                                     *)

MaxStages == 2      \* stages of a validated pipeline

ConnX == VStr(<<"X">>)
ConnY == VStr(<<"Y">>)

SourceXStage ==
    VDict(<<KV(k_source, VDict(<<KV(k_connectionName, ConnX)>>))>>)
SourceYStage ==
    VDict(<<KV(k_source, VDict(<<KV(k_connectionName, ConnY)>>))>>)
MergeXStage ==
    VDict(<<KV(k_merge, VDict(<<KV(k_into,
        VDict(<<KV(k_connectionName, ConnX)>>))>>))>>)
MergeYStage ==
    VDict(<<KV(k_merge, VDict(<<KV(k_into,
        VDict(<<KV(k_connectionName, ConnY)>>))>>))>>)
EmitXStage ==
    VDict(<<KV(k_emit, VDict(<<KV(k_connectionName, ConnX)>>))>>)
AddFieldsStage ==
    VDict(<<KV(k_addFields, VDict(<<KV(<<"a">>, VInt(1))>>))>>)

ValidatorVocabulary ==
    {SourceXStage, SourceYStage, MergeXStage, MergeYStage, EmitXStage,
     AddFieldsStage, MatchStage, MergePlainStage, TextStage, NumberStage}

\* the "options" of a processor: absent, or with a dead-letter queue
DlqOptions(conn) ==
    <<KV(k_options, VDict(<<KV(k_dlq,
        VDict(<<KV(k_connectionName, conn)>>))>>))>>

OptionsSet == {<<>>, DlqOptions(ConnX), DlqOptions(ConnY)}

ProcessorWith(stages, options) ==
    VDict(<<KV(k_name, VStr(<<"p">>)), KV(k_pipeline, VList(stages))>>
          \o options)

File(processor, stem) ==
    [json_ok |-> TRUE, processor |-> processor, stem |-> stem]

\* files that do not parse, hold no mapping, lack the pipeline or hold one
\* that is no list, and a file whose name differs from the processor's
OddFiles ==
    {NoFile}
    \cup {File(data, <<"p">>) : data \in OddData}
    \cup {File(VDict(<<KV(k_pipeline, VStr(<<"a","b">>))>>), <<"p">>),
          File(VDict(<<KV(k_pipeline, SourceYStage)>>), <<"p">>),
          File(VInt(5), <<"p">>),
          File(ProcessorWith(<<SourceYStage, MergeYStage>>, <<>>), <<"q">>)}

FileSet ==
    {File(ProcessorWith(stages, options), <<"p">>) :
         stages \in SeqsUpTo(ValidatorVocabulary, MaxStages),
         options \in OptionsSet}
    \cup OddFiles

\* what load_connection_names and _load_connections return
ConnectionsSet == {<<ConnY>>, <<ConnX, ConnY>>}

InitValidator ==
    /\ processor_file \in FileSet
    /\ connection_names \in ConnectionsSet
    /\ validate_pc = "start"
    /\ validation = NewValidation
    /\ strict_pc = "test_dlq_connections_exist"
    /\ strict = [test \in StrictTests |-> NotRun]
    /\ ScorerIdle
    /\ PermuteIdle
    /\ ParserIdle
    /\ TrendIdle
    /\ ProfilerIdle
    /\ RestIdle

scorer_vars == <<loader, processor_data, pc, result, permuted_data,
                 permuted_pc, permuted_result>>
parser_vars == <<error_text, parse_pc, suggested>>

\* one call of validate_processor_file
ValidateProcessorFile ==
    /\ validate_pc = "start"
    /\ validation' = validate_processor_file(processor_file, connection_names)
    /\ validate_pc' = "done"
    /\ UNCHANGED <<processor_file, connection_names, strict_pc, strict,
                   scorer_vars, parser_vars, trend_vars, profiler_vars,
                   rest_vars>>

\* a unittest method runs on the file and the next one in the loader's
\* order (sorted by name) is up
RunTest(test, outcome, next) ==
    /\ strict_pc = test
    /\ strict' = [strict EXCEPT ![test] = outcome]
    /\ strict_pc' = next
    /\ UNCHANGED <<processor_file, connection_names, validate_pc, validation,
                   scorer_vars, parser_vars, trend_vars, profiler_vars,
                   rest_vars>>

TestDlqConnectionsExist ==
    RunTest("test_dlq_connections_exist",
            test_dlq_connections_exist(processor_file, connection_names),
            "test_merge_connections_exist")

TestMergeConnectionsExist ==
    RunTest("test_merge_connections_exist",
            test_merge_connections_exist(processor_file, connection_names),
            "test_pipeline_has_output_stage")

TestPipelineHasOutputStage ==
    RunTest("test_pipeline_has_output_stage",
            test_pipeline_has_output_stage(processor_file),
            "test_pipeline_has_source_stage")

TestPipelineHasSourceStage ==
    RunTest("test_pipeline_has_source_stage",
            test_pipeline_has_source_stage(processor_file),
            "test_source_connections_exist")

TestSourceConnectionsExist ==
    RunTest("test_source_connections_exist",
            test_source_connections_exist(processor_file, connection_names),
            "done")

NextValidator ==
    \/ ValidateProcessorFile
    \/ TestDlqConnectionsExist
    \/ TestMergeConnectionsExist
    \/ TestPipelineHasOutputStage
    \/ TestPipelineHasSourceStage
    \/ TestSourceConnectionsExist

SpecValidator == InitValidator /\ [][NextValidator]_vars

-----------------------------------------------------------------------------
(* Properties of the validators                                            *)

\* the file holds a processor whose pipeline is a list of stages
HoldsPipeline ==
    /\ processor_file.json_ok
    /\ processor_file.processor.t = "dict"
    /\ \E p \in 1..Len(processor_file.processor.items) :
          /\ processor_file.processor.items[p].k = k_pipeline
          /\ processor_file.processor.items[p].v.t = "list"

StagesOfFile ==
    LET items == processor_file.processor.items
    IN  items[CHOOSE p \in 1..Len(items) : items[p].k = k_pipeline].v.items

\* the stage contains the operator: as a key of the mapping the stage is, or
\* in the text or the list the stage is
ContainsOperator(stage, operator) ==
    \/ stage.t = "dict" /\ \E p \in 1..Len(stage.items) : stage.items[p].k = operator
    \/ stage.t = "str" /\ \E p \in 1..Len(stage.s) :
          /\ p + Len(operator) - 1 <= Len(stage.s)
          /\ SubSeq(stage.s, p, p + Len(operator) - 1) = operator
    \/ stage.t = "list" /\ \E p \in 1..Len(stage.items) :
          stage.items[p] = VStr(operator)

\* C12: every non-empty pipeline whose first stage does not contain a source
\* operator is reported invalid with a non-empty error list by
\* validate_processor_file, and is not passed by
\* test_pipeline_has_source_stage, whatever the other rules report for it.
C12_FirstStageWithoutSourceIsInvalid ==
    (/\ HoldsPipeline
     /\ StagesOfFile # <<>>
     /\ ~ContainsOperator(StagesOfFile[1], k_source)) =>
        /\ (validate_pc = "done") =>
              /\ validation.valid = FALSE
              /\ validation.errors # <<>>
        /\ strict["test_pipeline_has_source_stage"].verdict
              \in {"not_run", "fail", "error"}

\* a pipeline that breaks no other rule: a single merge stage into a known
\* connection
C12_Witness ==
    /\ processor_file = File(ProcessorWith(<<MergeYStage>>, <<>>), <<"p">>)
    /\ validate_pc = "done"
    /\ validation.valid = FALSE
    /\ validation.errors = <<Message("First pipeline stage must be '$source'")>>
    /\ validation.warnings = <<>>
    /\ strict["test_pipeline_has_source_stage"] = Failed

\* the value under key in a mapping, as a set: empty when value is no mapping
\* or has no such key
Under(value, key) ==
    IF value.t = "dict"
    THEN {value.items[p].v : p \in {q \in 1..Len(value.items) :
                                        value.items[q].k = key}}
    ELSE {}

\* the connection names the processor refers to: from a source stage, from
\* the "into" target of a merge stage, from the dead-letter queue
SourceReferences ==
    UNION {UNION {Under(source, k_connectionName) :
                      source \in Under(StagesOfFile[i], k_source)} :
               i \in 1..Len(StagesOfFile)}

MergeReferences ==
    UNION {UNION {UNION {Under(into, k_connectionName) :
                             into \in Under(merge, k_into)} :
                      merge \in Under(StagesOfFile[i], k_merge)} :
               i \in 1..Len(StagesOfFile)}

DlqReferences ==
    UNION {UNION {Under(dlq, k_connectionName) :
                      dlq \in Under(options, k_dlq)} :
               options \in Under(processor_file.processor, k_options)}

UnknownReferences ==
    {conn \in SourceReferences \cup MergeReferences \cup DlqReferences :
         \A p \in 1..Len(connection_names) : connection_names[p] # conn}

\* C13: a pipeline that references, from a source stage, a merge "into"
\* target or a dead-letter-queue configuration, a connection name that is not
\* among the known connections is reported as failed (valid = false) with an
\* error, not a warning, that names the unknown connection.
C13_UnknownConnectionIsAnError ==
    (validate_pc = "done" /\ HoldsPipeline) =>
        \A conn \in UnknownReferences :
            /\ validation.valid = FALSE
            /\ \E p \in 1..Len(validation.errors) :
                  validation.errors[p].named = <<conn>>

\* a pipeline of stages (mappings, or text or lists, never a number or null)
\* none of which contains $merge or $emit
NoOutputPipeline ==
    /\ HoldsPipeline
    /\ \A i \in 1..Len(StagesOfFile) :
          /\ StagesOfFile[i].t \in {"dict", "str", "list"}
          /\ ~ContainsOperator(StagesOfFile[i], k_merge)
          /\ ~ContainsOperator(StagesOfFile[i], k_emit)

NoOutputMessage == Message("No output stage found ($merge, $emit)")

\* validate_processor_file warns about the missing output stage and its
\* verdict is the one of the other rules
WarnedOnly ==
    /\ \E p \in 1..Len(validation.warnings) :
          validation.warnings[p] = NoOutputMessage
    /\ \A p \in 1..Len(validation.errors) :
          validation.errors[p] # NoOutputMessage
    /\ validation.valid <=> (validation.errors = <<>>)

\* C14 as stated: for a pipeline with no stage containing $merge or $emit the
\* minimal validator adds a warning and leaves the validity unchanged, and
\* test_pipeline_has_output_stage fails that same pipeline.
C14_Original ==
    NoOutputPipeline =>
        /\ (validate_pc = "done") => WarnedOnly
        /\ strict["test_pipeline_has_output_stage"].verdict
              \in {"not_run", "fail"}

\* C14 (amended): for such a pipeline the minimal validator adds a warning
\* and leaves the validity unchanged; test_pipeline_has_output_stage fails it
\* exactly when it is non-empty and no stage contains $addFields either, and
\* passes it otherwise.
C14_StrictAcceptsAddFields ==
    NoOutputPipeline =>
        /\ (validate_pc = "done") => WarnedOnly
        /\ LET outcome == strict["test_pipeline_has_output_stage"]
               rejected ==
                   /\ StagesOfFile # <<>>
                   /\ \A i \in 1..Len(StagesOfFile) :
                         ~ContainsOperator(StagesOfFile[i], k_addFields)
           IN  (outcome # NotRun) =>
                   outcome = (IF rejected THEN Failed ELSE Passed)

\* a source followed by $addFields: warned about and valid for the minimal
\* validator, passed by the strict one
C14_Witness ==
    /\ processor_file =
           File(ProcessorWith(<<SourceYStage, AddFieldsStage>>, <<>>), <<"p">>)
    /\ validate_pc = "done"
    /\ validation.valid
    /\ validation.errors = <<>>
    /\ validation.warnings = <<NoOutputMessage>>
    /\ strict["test_pipeline_has_output_stage"] = Passed

-----------------------------------------------------------------------------
(* The statistics of a metric series: safe_stats and _calculate_trend      *)

RECURSIVE Sum(_)
Sum(series) == IF series = <<>> THEN 0 ELSE Head(series) + Sum(Tail(series))

Min(series) ==
    CHOOSE v \in {series[p] : p \in 1..Len(series)} :
        \A q \in 1..Len(series) : v <= series[q]

MaxOf(series) ==
    CHOOSE v \in {series[p] : p \in 1..Len(series)} :
        \A q \in 1..Len(series) : v >= series[q]

\* values[:len(values)//2] and values[len(values)//2:]
first_half(series) == SubSeq(series, 1, Len(series) \div 2)
second_half(series) == SubSeq(series, Len(series) \div 2 + 1, Len(series))

\* ((second_avg - first_avg) / first_avg * 100) if first_avg > 0 else 0, as
\* an exact quotient with a positive denominator
change_pct(series) ==
    LET first == Sum(first_half(series))
        second == Sum(second_half(series))
        first_len == Len(first_half(series))
        second_len == Len(second_half(series))
    IN  IF first > 0
        THEN Quotient((second * first_len - first * second_len) * 100,
                      first * second_len)
        ELSE Quotient(0, 1)

Abs(n) == IF n < 0 THEN -n ELSE n

\* quotient < n and quotient > n, for a positive denominator
Below(quotient, n) == quotient.num < n * quotient.den
Above(quotient, n) == quotient.num > n * quotient.den

\* a trend that does not look at the length of the series first
calculate_trend_any_length(series) ==
    IF first_half(series) = <<>> \/ second_half(series) = <<>>
    THEN "stable"
    ELSE LET change == change_pct(series)
         IN  IF Below(Quotient(Abs(change.num), change.den), 5) THEN "stable"
             ELSE IF Above(change, 5) THEN "increasing"
             ELSE "decreasing"

calculate_trend(series) ==
    IF Len(series) < 2 THEN "insufficient_data"
    ELSE IF first_half(series) = <<>> \/ second_half(series) = <<>>
    THEN "stable"
    ELSE LET change == change_pct(series)
         IN  IF Below(Quotient(Abs(change.num), change.den), 5) THEN "stable"
             ELSE IF Above(change, 5) THEN "increasing"
             ELSE "decreasing"

\* statistics that do not single out the all-zero series
safe_stats_of_any_values(series) ==
    IF series = <<>>
    THEN [min |-> 0, max |-> 0, avg |-> Quotient(0, 1), trend |-> "stable"]
    ELSE [min |-> Min(series), max |-> MaxOf(series),
          avg |-> Quotient(Sum(series), Len(series)),
          trend |-> calculate_trend(series)]

safe_stats(series) ==
    IF series = <<>> \/ \A p \in 1..Len(series) : series[p] = 0
    THEN [min |-> 0, max |-> 0, avg |-> Quotient(0, 1), trend |-> "stable"]
    ELSE [min |-> Min(series), max |-> MaxOf(series),
          avg |-> Quotient(Sum(series), Len(series)),
          trend |-> calculate_trend(series)]

MaxSeries == 4      \* values of a metric series

\* sample values: zero, the doubling series, and pairs 5% apart
TrendValues == {0, 10, 19, 20, 21, 40, 80}

SeriesSet == SeqsUpTo(TrendValues, MaxSeries)

InitTrend ==
    /\ values \in SeriesSet
    /\ stats_pc = "start"
    /\ metric_stats = NoStats
    /\ ScorerIdle
    /\ PermuteIdle
    /\ ParserIdle
    /\ ValidatorIdle
    /\ ProfilerIdle
    /\ RestIdle

\* one call of safe_stats on the series
SafeStats ==
    /\ stats_pc = "start"
    /\ metric_stats' = safe_stats(values)
    /\ stats_pc' = "done"
    /\ UNCHANGED <<values, scorer_vars, parser_vars, validator_vars,
                   profiler_vars,
                   rest_vars>>

NextTrend == SafeStats

SpecTrend == InitTrend /\ [][NextTrend]_vars

-----------------------------------------------------------------------------
(* Properties of the statistics                                            *)

\* the averages of the two halves of the series, as quotients
FirstAverage == Quotient(Sum(SubSeq(values, 1, Len(values) \div 2)),
                         Len(values) \div 2)
SecondAverage ==
    Quotient(Sum(SubSeq(values, Len(values) \div 2 + 1, Len(values))),
             Len(values) - Len(values) \div 2)

\* the relative change c, in percent, compared with a whole number n:
\* c >= n and c <= n, for a positive first average
\* c = (S/s - F/f) / (F/f) = (S*f - F*s) / (F*s)
ChangeAtLeast(n) ==
    (SecondAverage.num * FirstAverage.den - FirstAverage.num * SecondAverage.den)
        * 100 >= n * FirstAverage.num * SecondAverage.den
ChangeAtMost(n) ==
    (SecondAverage.num * FirstAverage.den - FirstAverage.num * SecondAverage.den)
        * 100 <= n * FirstAverage.num * SecondAverage.den

\* C20: for a series of at least two values that is not all zero, with
\* relative change c between the averages of its halves, the trend is
\* "stable" iff |c| < 5%, "increasing" iff c >= +5% and "decreasing" iff
\* c <= -5%, the boundaries included; 10,10,10,10 is stable with min, max
\* and avg 10, and 10,20,40,80 is increasing.
C20_TrendBands ==
    (/\ stats_pc = "done"
     /\ Len(values) >= 2
     /\ FirstAverage.num > 0) =>
        /\ (metric_stats.trend = "stable") <=>
              (~ChangeAtLeast(5) /\ ~ChangeAtMost(-5))
        /\ (metric_stats.trend = "increasing") <=> ChangeAtLeast(5)
        /\ (metric_stats.trend = "decreasing") <=> ChangeAtMost(-5)
        /\ (values = <<10, 10, 10, 10>>) =>
              /\ metric_stats.trend = "stable"
              /\ metric_stats.min = 10 /\ metric_stats.max = 10
              /\ metric_stats.avg.num = 10 * metric_stats.avg.den
        /\ (values = <<10, 20, 40, 80>>) => metric_stats.trend = "increasing"

-----------------------------------------------------------------------------
(* The profiling sampler: profile_processors, profile_processors_continuous *)
(* and the fetch they make through get_single_processor_stats.  Memory and  *)
(* throughput are kept in halves (memory_mb = 3 stands for 1.5 MB).  The    *)
(* stats are the subset get_single_processor_stats builds when the          *)
(* processor carries no "full_response": it holds no latency and no state   *)
(* size, so the sampler reads 0 for them.                                   *)

MiB == 1048576

\* the "stats" of a processor as the control plane reports them
Stats(input, memory) ==
    [inputMessageCount |-> input, outputMessageCount |-> input,
     dlqMessageCount |-> 0, memoryUsageBytes |-> memory, scaleFactor |-> 1]

\* target_processor.get("stats", {}) read with the defaults of lines 713-718
DefaultStats ==
    [inputMessageCount |-> 0, outputMessageCount |-> 0, dlqMessageCount |-> 0,
     memoryUsageBytes |-> 0, scaleFactor |-> 1]

\* what get_single_processor_stats returns or raises, given the answer to
\* the list request of list_processors ("listed": the processor is among the
\* results, "absent": it is not, "request_error": requests raises or the
\* status is an error, "malformed": the body is not of the expected shape)
\* and the stats the detail request added to the processor
get_single_processor_stats(listing, stats) ==
    CASE listing = "listed" ->
             [raised |-> "", success |-> 1, stats |-> stats]
      [] listing = "absent" ->
             [raised |-> "", success |-> 0, stats |-> DefaultStats]
      [] listing = "request_error" ->
             [raised |-> "", success |-> 0, stats |-> DefaultStats]
      [] OTHER ->
             [raised |-> "AttributeError", success |-> 0, stats |-> DefaultStats]

\* an entry of sample["processors"]: the metrics of a processor, or
\* {"name": ..., "error": ...}
ProcSample(name, stats, throughput) ==
    [name |-> name, error |-> "",
     memory_mb |-> (2 * stats.memoryUsageBytes) \div MiB,
     input_count |-> stats.inputMessageCount,
     output_count |-> stats.outputMessageCount,
     latency_p50_us |-> 0, latency_p99_us |-> 0,
     throughput_per_sec |-> throughput]

ErrorMarker(name, exception) ==
    [name |-> name, error |-> exception, memory_mb |-> 0, input_count |-> 0,
     output_count |-> 0, latency_p50_us |-> 0, latency_p99_us |-> 0,
     throughput_per_sec |-> 0]

\* next((p for p in entries if p["name"] == name), None), as a sequence of
\* at most one entry
FirstNamed(entries, name) ==
    IF \E p \in 1..Len(entries) : entries[p].name = name
    THEN <<entries[CHOOSE p \in 1..Len(entries) :
                       /\ entries[p].name = name
                       /\ \A q \in 1..(p - 1) : entries[q].name # name]>>
    ELSE <<>>

\* prev_sample: the entry of the processor in samples[-1]
prev_sample(history, name) ==
    IF history = <<>> THEN <<>>
    ELSE FirstNamed(history[Len(history)].processors, name)

\* "Calculate throughput": the value in halves, or the KeyError that reading
\* input_count of an error entry raises
throughput_per_sec(name, stats, history, every) ==
    LET prev == prev_sample(history, name)
    IN  IF prev = <<>> THEN [raised |-> "", value |-> 0]
        ELSE IF prev[1].error # "" THEN [raised |-> "KeyError", value |-> 0]
        ELSE LET input_diff == stats.inputMessageCount - prev[1].input_count
             IN  [raised |-> "",
                  value |-> Max(0, (2 * input_diff) \div every)]

Alert(name, text) == [name |-> name, text |-> text]

\* _check_thresholds
check_thresholds(proc_sample, limits) ==
    (IF "memory_mb" \in limits.keys
        /\ proc_sample.memory_mb > 2 * limits.memory_mb
     THEN <<Alert(proc_sample.name, "High memory usage")>> ELSE <<>>)
    \o (IF "latency_p99_ms" \in limits.keys
           /\ proc_sample.latency_p99_us > 1000 * limits.latency_p99_ms
        THEN <<Alert(proc_sample.name, "High latency")>> ELSE <<>>)
    \o (IF "throughput_min" \in limits.keys
           /\ proc_sample.throughput_per_sec < 2 * limits.throughput_min
        THEN <<Alert(proc_sample.name, "Low throughput")>> ELSE <<>>)

\* the body of  for processor_name in processor_names  for one processor:
\* the tick record it leaves
SampleProcessor(record, name, fetched, history, every, limits) ==
    IF fetched.raised # ""
    THEN [record EXCEPT !.processors = Append(@, ErrorMarker(name, fetched.raised))]
    ELSE IF fetched.success = 0 THEN record
    ELSE LET throughput == throughput_per_sec(name, fetched.stats, history, every)
             proc_sample == ProcSample(name, fetched.stats, throughput.value)
         IN  IF throughput.raised # ""
             THEN [record EXCEPT
                       !.processors = Append(@, ErrorMarker(name, throughput.raised))]
             ELSE [record EXCEPT
                       !.processors = Append(@, proc_sample),
                       !.alerts = @ \o check_thresholds(proc_sample, limits)]

\* the alerts the body evaluates for the processor
AlertsOf(name, fetched, history, every, limits) ==
    LET throughput == throughput_per_sec(name, fetched.stats, history, every)
    IN  IF fetched.raised # "" \/ fetched.success = 0 \/ throughput.raised # ""
        THEN <<>>
        ELSE check_thresholds(ProcSample(name, fetched.stats, throughput.value),
                              limits)

\* the successful entries of a processor, one per tick that has one
RECURSIVE proc_data(_, _)
proc_data(history, name) ==
    IF history = <<>> THEN <<>>
    ELSE LET entries == history[1].processors
             good == SelectSeq(entries,
                               LAMBDA e : e.name = name /\ e.error = "")
         IN  (IF good = <<>> THEN <<>> ELSE <<good[1]>>)
             \o proc_data(Tail(history), name)

\* _calculate_processor_stats (without the recommendations)
calculate_processor_stats(data) ==
    [memory_mb |-> safe_stats([p \in 1..Len(data) |-> data[p].memory_mb]),
     latency_p50_ms |-> safe_stats([p \in 1..Len(data) |-> data[p].latency_p50_us]),
     latency_p99_ms |-> safe_stats([p \in 1..Len(data) |-> data[p].latency_p99_us]),
     throughput_per_sec |->
         safe_stats([p \in 1..Len(data) |-> data[p].throughput_per_sec]),
     samples |-> Len(data)]

RECURSIVE AllAlerts(_)
AllAlerts(history) ==
    IF history = <<>> THEN <<>>
    ELSE history[1].alerts \o AllAlerts(Tail(history))

\* _analyze_profile_data
analyze_profile_data(history, seconds, every) ==
    IF history = <<>>
    THEN [error |-> "No samples collected", sample_count |-> 0,
          duration_seconds |-> 0, interval_seconds |-> 0, alerts |-> <<>>,
          processors |-> <<>>]
    ELSE LET first == history[1].processors
             names == {first[p].name : p \in {q \in 1..Len(first) :
                                                  first[q].error = ""}}
         IN  [error |-> "", sample_count |-> Len(history),
              duration_seconds |-> seconds, interval_seconds |-> every,
              alerts |-> AllAlerts(history),
              processors |->
                  [name \in names |->
                       calculate_processor_stats(proc_data(history, name))]]

-----------------------------------------------------------------------------
(* A profiling run as a state machine                                      *)

MaxFetches == 4     \* fetches an unbounded run makes before it is interrupted

NamesSet == {<<"A">>, <<"A", "B">>}
Intervals == {1, 2}
Durations == {2}
ThresholdsSet ==
    {NoThresholds,
     [keys |-> {"memory_mb", "throughput_min"}, memory_mb |-> 1,
      latency_p99_ms |-> 0, throughput_min |-> 1]}

\* what the control plane may report for a processor
SnapshotSet == {Stats(0, 0), Stats(1, 0), Stats(3, 2 * MiB)}
Listings == {"listed", "absent", "request_error", "malformed"}

\* seconds a fetch may take
FetchTimes == {0, 1}

InitProfiler ==
    /\ profile_mode \in {"bounded", "continuous"}
    /\ processor_names \in NamesSet
    /\ interval \in Intervals
    /\ duration \in Durations
    /\ thresholds \in ThresholdsSet
    /\ samples = <<>>
    /\ sample = NewSample
    /\ next_processor = 0
    /\ profile_pc = "loop"
    /\ printed = <<>>
    /\ profile = NoProfile
    /\ now = 0
    /\ interrupted = FALSE
    /\ stats_result = NoFetch
    /\ timestamp = 0
    /\ ScorerIdle
    /\ PermuteIdle
    /\ ParserIdle
    /\ ValidatorIdle
    /\ TrendIdle
    /\ RestIdle

other_vars == <<scorer_vars, parser_vars, validator_vars, trend_vars,
                rest_vars>>

run_vars == <<profile_mode, processor_names, interval, duration, thresholds>>

\* the loop test holds and a tick begins
StartTick ==
    /\ profile_pc = "loop"
    /\ \/ profile_mode = "bounded" /\ now < duration
       \/ /\ profile_mode = "continuous"
          /\ (Len(samples) + 1) * Len(processor_names) <= MaxFetches
    /\ sample' = NewSample
    /\ next_processor' = 1
    /\ profile_pc' = "fetch"
    /\ timestamp' = now
    /\ UNCHANGED <<run_vars, samples, printed, profile, now, interrupted,
                   stats_result, other_vars>>

\* the record and the prints one pass of the for loop leaves, for the
\* answers the control plane gives
AfterFetch(listing, stats, seconds) ==
    LET name == processor_names[next_processor]
        answer == get_single_processor_stats(listing, stats)
        alerts == AlertsOf(name, answer, samples, interval, thresholds)
    IN  /\ stats_result' = answer
        /\ sample' = SampleProcessor(sample, name, answer, samples, interval,
                                     thresholds)
        /\ printed' = IF profile_mode = "continuous"
                      THEN printed \o [p \in 1..Len(alerts) |->
                                           [tick |-> Len(samples) + 1,
                                            alert |-> alerts[p]]]
                      ELSE printed
        /\ next_processor' = next_processor + 1
        /\ profile_pc' = IF next_processor = Len(processor_names)
                         THEN "end_tick" ELSE "fetch"
        /\ now' = now + seconds

\* one pass of the for loop: the fetch of a processor and what is recorded
Fetch ==
    /\ profile_pc = "fetch"
    /\ \E listing \in Listings, stats \in SnapshotSet, seconds \in FetchTimes :
          /\ (listing # "listed") => stats = DefaultStats
          /\ AfterFetch(listing, stats, seconds)
    /\ UNCHANGED <<run_vars, timestamp, samples, profile, interrupted, other_vars>>

\* the amount slept after a tick: time.sleep(interval) in the unbounded run;
\* in the bounded run interval, or what remains of the duration
SleepTime ==
    IF profile_mode = "continuous" THEN interval
    ELSE IF duration - now > interval THEN interval
    ELSE IF duration - now > 0 THEN duration - now
    ELSE 0

\* samples.append(sample) and the progress lines
EndTick ==
    /\ profile_pc = "end_tick"
    /\ samples' = Append(samples, sample)
    /\ profile_pc' = IF SleepTime > 0 THEN "sleep" ELSE "loop"
    /\ UNCHANGED <<run_vars, timestamp, sample, next_processor, printed, profile, now,
                   interrupted, stats_result, other_vars>>

Sleep ==
    /\ profile_pc = "sleep"
    /\ now' = now + SleepTime
    /\ profile_pc' = "loop"
    /\ UNCHANGED <<run_vars, timestamp, samples, sample, next_processor, printed,
                   profile, interrupted, stats_result, other_vars>>

\* the loop test of the bounded run fails
Finish ==
    /\ profile_pc = "loop"
    /\ profile_mode = "bounded"
    /\ now >= duration
    /\ profile' = analyze_profile_data(samples, duration, interval)
    /\ profile_pc' = "returned"
    /\ UNCHANGED <<run_vars, timestamp, samples, sample, next_processor, printed, now,
                   interrupted, stats_result, other_vars>>

\* a KeyboardInterrupt leaves the loop: the unbounded run handles it at line
\* 1511, the bounded run has no handler
Unwind ==
    /\ interrupted' = TRUE
    /\ IF profile_mode = "continuous"
       THEN /\ profile' = analyze_profile_data(samples, now, interval)
            /\ profile_pc' = "returned"
       ELSE /\ profile' = profile
            /\ profile_pc' = "propagated"
    /\ UNCHANGED <<run_vars, timestamp, samples, sample, next_processor, printed, now,
                   stats_result, other_vars>>

\* the interrupt arrives during the list request of list_processors
InterruptListRequest ==
    /\ profile_pc = "fetch"
    /\ ~interrupted
    /\ Unwind

\* the interrupt arrives during the detail request of list_processors, inside
\* its try / bare except: the processor keeps the stats it was listed
\* with and the fetch goes on
InterruptDetailRequest ==
    /\ profile_pc = "fetch"
    /\ ~interrupted
    /\ interrupted' = TRUE
    /\ AfterFetch("listed", DefaultStats, 0)
    /\ UNCHANGED <<run_vars, timestamp, samples, profile, other_vars>>

\* the interrupt arrives during time.sleep
InterruptSleep ==
    /\ profile_pc = "sleep"
    /\ ~interrupted
    /\ Unwind

NextProfiler ==
    \/ StartTick
    \/ Fetch
    \/ EndTick
    \/ Sleep
    \/ Finish
    \/ InterruptListRequest
    \/ InterruptDetailRequest
    \/ InterruptSleep

SpecProfiler == InitProfiler /\ [][NextProfiler]_vars

-----------------------------------------------------------------------------
(* Properties of the profiling sampler                                     *)

\* the latest successful entry of the processor in the ticks of history, as
\* a sequence of at most one entry
RECURSIVE PreviousRecorded(_, _)
PreviousRecorded(history, name) ==
    IF history = <<>> THEN <<>>
    ELSE LET found == SelectSeq(history[Len(history)].processors,
                                LAMBDA e : e.name = name /\ e.error = "")
         IN  IF found # <<>> THEN <<found[1]>>
             ELSE PreviousRecorded(SubSeq(history, 1, Len(history) - 1), name)

\* the ticks before tick t
Before(t) == SubSeq(samples, 1, t - 1)

\* the successful entries of tick t
RecordedIn(t) ==
    {p \in 1..Len(samples[t].processors) : samples[t].processors[p].error = ""}

\* C15: every successfully recorded sample of a pipeline has throughput 0 if
\* it is the pipeline's first sample of the run, and otherwise max(0, (its
\* input count - the input count of the pipeline's previous recorded
\* sample) / interval); it is never negative.
C15_ThroughputFromPreviousRecorded ==
    \A t \in 1..Len(samples) : \A p \in RecordedIn(t) :
        LET entry == samples[t].processors[p]
            prev == PreviousRecorded(Before(t), entry.name)
        IN  /\ entry.throughput_per_sec >= 0
            /\ entry.throughput_per_sec =
                   IF prev = <<>> THEN 0
                   ELSE Max(0, (2 * (entry.input_count - prev[1].input_count))
                                   \div interval)

\* what the sampler does compute: the difference to the entry of the tick
\* just before, and 0 when that tick holds no entry of the pipeline
ThroughputFromPreviousTick ==
    \A t \in 1..Len(samples) : \A p \in RecordedIn(t) :
        LET entry == samples[t].processors[p]
            prev == prev_sample(Before(t), entry.name)
        IN  /\ entry.throughput_per_sec >= 0
            /\ entry.throughput_per_sec =
                   IF prev = <<>> THEN 0
                   ELSE Max(0, (2 * (entry.input_count - prev[1].input_count))
                                   \div interval)

\* the entries are those of the first n named pipelines, one each, in order
OneEntryEach(entries, n) ==
    /\ Len(entries) = n
    /\ \A p \in 1..n : entries[p].name = processor_names[p]

\* C16: in every tick each named pipeline yields exactly one entry in the
\* tick's record (a metrics sample or an error marker), whatever happened to
\* the fetches of the pipelines before it.
C16_OneEntryPerPipeline ==
    /\ \A t \in 1..Len(samples) :
           OneEntryEach(samples[t].processors, Len(processor_names))
    /\ (profile_pc \in {"fetch", "end_tick"}) =>
           OneEntryEach(sample.processors, next_processor - 1)

\* the pipeline whose fetch was the last one made in the running tick
LastFetched == processor_names[next_processor - 1]

\* a fetch was made in the running tick and is recorded
AfterAFetch == profile_pc \in {"fetch", "end_tick"} /\ next_processor > 1

\* what holds of a failed fetch: the pipelines after it are still fetched
\* and the tick is appended
RestOfTickIsSampled ==
    (AfterAFetch /\ stats_result.raised = "" /\ stats_result.success = 1
       /\ prev_sample(samples, LastFetched) = <<>>) =>
        /\ sample.processors # <<>>
        /\ sample.processors[Len(sample.processors)].name = LastFetched
        /\ sample.processors[Len(sample.processors)].error = ""

\* C17: if the fetch of pipeline P failed in tick N and an error marker was
\* recorded, and the fetch of P in tick N+1 returns a valid snapshot, then
\* tick N+1 records a metrics sample for P, not another error.
C17_ErrorDoesNotReachNextTick ==
    (AfterAFetch /\ samples # <<>>) =>
        LET prev == prev_sample(samples, LastFetched)
            entries == sample.processors
        IN  (/\ prev # <<>>
             /\ prev[1].error = "AttributeError"
             /\ stats_result.raised = ""
             /\ stats_result.success = 1) =>
                \E p \in 1..Len(entries) :
                    entries[p].name = LastFetched /\ entries[p].error = ""

\* the alerts printed during tick t, in the order they were printed
PrintedIn(t) ==
    LET lines == SelectSeq(printed, LAMBDA line : line.tick = t)
    IN  [p \in 1..Len(lines) |-> lines[p].alert]

\* every alert of the completed ticks and of the running one has been
\* printed, during the tick that raised it
AlertsPrintedInTheirTick ==
    /\ \A t \in 1..Len(samples) : PrintedIn(t) = samples[t].alerts
    /\ (profile_pc \in {"fetch", "end_tick"}) =>
           PrintedIn(Len(samples) + 1) = sample.alerts

\* C18: in the bounded run and in the unbounded run, every alert raised by
\* the threshold evaluation of tick N is printed during tick N, before tick
\* N+1 begins; none is held back until the final analysis.
C18_AlertsAreImmediate == AlertsPrintedInTheirTick

\* what holds: the unbounded run prints each alert in its tick
UnboundedRunPrintsInTick ==
    (profile_mode = "continuous") => AlertsPrintedInTheirTick

\* the bounded run prints no alert at all; its alerts are in the analysis
BoundedRunHoldsAlertsBack ==
    (profile_mode = "bounded") =>
        /\ printed = <<>>
        /\ (profile_pc = "returned") => profile.alerts = AllAlerts(samples)

\* the call has returned the analysis of the completed ticks, which holds
\* nothing of the tick that was being collected
ReturnedCompletedTicks ==
    /\ profile_pc = "returned"
    /\ profile = analyze_profile_data(samples, now, interval)

\* C19: in profile_processors_continuous an interrupt raised at any point of
\* the fetch phase (the requests of the metrics fetch included) or of the
\* sleep phase makes the loop exit and the call return the analysis of
\* exactly the ticks completed so far; it is never swallowed and never
\* propagates.
C19_InterruptEndsTheRun ==
    (profile_mode = "continuous" /\ interrupted) => ReturnedCompletedTicks

\* what holds: the unbounded run never lets the interrupt propagate, and
\* when it returns, it returns the analysis of the completed ticks
UnboundedRunNeverPropagates ==
    (profile_mode = "continuous") =>
        /\ profile_pc # "propagated"
        /\ (profile_pc = "returned") => ReturnedCompletedTicks

-----------------------------------------------------------------------------
(* Properties of the analyzer's statistics                                 *)

AllZero(series) == \A p \in 1..Len(series) : series[p] = 0

\* C21 as stated: a series of fewer than two samples gets the trend
\* "insufficient_data", whatever the sample's value.
C21_Original ==
    (stats_pc = "done" /\ Len(values) < 2) =>
        metric_stats.trend = "insufficient_data"

\* C21: a series of fewer than two samples gets the trend
\* "insufficient_data" when its sample is not zero; the empty series and the
\* single zero sample get "stable".
C21_ShortSeriesTrend ==
    (stats_pc = "done" /\ Len(values) < 2) =>
        metric_stats.trend =
            IF AllZero(values) THEN "stable" ELSE "insufficient_data"

C21_Witness ==
    /\ stats_pc = "done"
    /\ Len(values) = 1
    /\ values[1] # 0
    /\ metric_stats.trend = "insufficient_data"

\* C22: a series whose values are all zero is reported with trend "stable"
\* and min = max = avg = 0, and no series makes a division by zero: every
\* quotient the statistics form has a non-zero denominator.
C22_AllZeroIsStable ==
    (stats_pc = "done") =>
        /\ AllZero(values) =>
               /\ metric_stats.trend = "stable"
               /\ metric_stats.min = 0
               /\ metric_stats.max = 0
               /\ metric_stats.avg.num = 0
        /\ metric_stats.avg.den # 0
        /\ change_pct(values).den # 0

C22_Witness ==
    /\ stats_pc = "done"
    /\ Len(values) >= 2
    /\ AllZero(values)
    /\ metric_stats.trend = "stable"

-----------------------------------------------------------------------------
(* The recommendation generator: _generate_recommendations, called by      *)
(* _calculate_processor_stats with the statistics of a pipeline's series.  *)
(* Memory is in MB, latency in ms, throughput in messages per second.      *)

MemoryIncreasing ==
    "Memory usage is increasing - monitor for potential memory leaks"
HighMemory ==
    "High memory usage detected - consider increasing tier or optimizing processor"
LowMemory == "Low memory usage - processor may be over-provisioned"
LatencyIncreasing ==
    "Latency is increasing - check for performance degradation"
HighLatency ==
    "High average latency - consider tier upgrade or optimization"
ThroughputDecreasing ==
    "Throughput is decreasing - investigate potential bottlenecks"
LowThroughput ==
    "Low throughput detected - verify data source and processing logic"
Healthy == "Processor performance appears healthy"

\* the if / elif chain of the memory rules
memory_recommendations(memory_stats) ==
    IF memory_stats.trend = "increasing" THEN <<MemoryIncreasing>>
    ELSE IF memory_stats.max > 1000 THEN <<HighMemory>>
    ELSE IF Below(memory_stats.avg, 100) THEN <<LowMemory>>
    ELSE <<>>

latency_recommendations(latency_stats) ==
    IF latency_stats.trend = "increasing" THEN <<LatencyIncreasing>>
    ELSE IF Above(latency_stats.avg, 50) THEN <<HighLatency>>
    ELSE <<>>

throughput_recommendations(throughput_stats) ==
    IF throughput_stats.trend = "decreasing" THEN <<ThroughputDecreasing>>
    ELSE IF Below(throughput_stats.avg, 1) THEN <<LowThroughput>>
    ELSE <<>>

\* recommendations that are returned as they are, when there are none too
or_healthy_never(advice) == advice

\* if not recommendations: recommendations.append(...)
or_healthy(advice) == IF advice = <<>> THEN <<Healthy>> ELSE advice

generate_recommendations(stats) ==
    or_healthy(memory_recommendations(stats.memory_mb)
               \o latency_recommendations(stats.latency_p99_ms)
               \o throughput_recommendations(stats.throughput_per_sec))

\* the statistics _calculate_processor_stats hands to the generator
StatsOf(all_series) ==
    [memory_mb |-> safe_stats(all_series.memory_mb),
     latency_p99_ms |-> safe_stats(all_series.latency_p99_ms),
     throughput_per_sec |-> safe_stats(all_series.throughput_per_sec)]

MaxSamples == 2     \* successful samples of the pipeline

\* values around the limits of the rules
MemoryValues == {10, 100, 1001}
LatencyValues == {50, 60}
ThroughputValues == {0, 1, 2}

\* the three series have one value per sample
MetricSeriesSet ==
    UNION {[memory_mb : [1..n -> MemoryValues],
            latency_p99_ms : [1..n -> LatencyValues],
            throughput_per_sec : [1..n -> ThroughputValues]] : n \in 1..MaxSamples}

InitRecommend ==
    /\ metric_series \in MetricSeriesSet
    /\ recommend_pc = "start"
    /\ recommendations = <<>>
    /\ ScorerIdle
    /\ PermuteIdle
    /\ ParserIdle
    /\ ValidatorIdle
    /\ TrendIdle
    /\ ProfilerIdle
    /\ SuiteIdle
    /\ StarterIdle

\* one call of _generate_recommendations
GenerateRecommendations ==
    /\ recommend_pc = "start"
    /\ recommendations' = generate_recommendations(StatsOf(metric_series))
    /\ recommend_pc' = "done"
    /\ UNCHANGED <<metric_series, scorer_vars, parser_vars, validator_vars,
                   trend_vars, profiler_vars, suite_vars, starter_vars>>

NextRecommend == GenerateRecommendations

SpecRecommend == InitRecommend /\ [][NextRecommend]_vars

\* the advisory of every rule whose condition holds, in the order of the
\* rules
EveryRuleThatHolds(stats) ==
    (IF stats.memory_mb.trend = "increasing"
     THEN <<MemoryIncreasing>> ELSE <<>>)
    \o (IF stats.memory_mb.max > 1000 THEN <<HighMemory>> ELSE <<>>)
    \o (IF Below(stats.memory_mb.avg, 100) THEN <<LowMemory>> ELSE <<>>)
    \o (IF stats.latency_p99_ms.trend = "increasing"
        THEN <<LatencyIncreasing>> ELSE <<>>)
    \o (IF Above(stats.latency_p99_ms.avg, 50) THEN <<HighLatency>> ELSE <<>>)
    \o (IF stats.throughput_per_sec.trend = "decreasing"
        THEN <<ThroughputDecreasing>> ELSE <<>>)
    \o (IF Below(stats.throughput_per_sec.avg, 1)
        THEN <<LowThroughput>> ELSE <<>>)

\* C23: the generator returns the advisory of every rule whose condition
\* holds, in the fixed order of the rules; no rule suppresses another.
C23_EveryHoldingRuleIsReturned ==
    (recommend_pc = "done") =>
        SelectSeq(recommendations, LAMBDA advice : advice # Healthy)
            = EveryRuleThatHolds(StatsOf(metric_series))

\* what holds: of the rules of one metric only the first one that holds is
\* returned, and the metrics do not suppress one another
FirstHoldingRulePerMetric ==
    (recommend_pc = "done") =>
        LET stats == StatsOf(metric_series)
            OfMetric(rules) ==
                LET mine == SelectSeq(EveryRuleThatHolds(stats),
                                      LAMBDA advice : advice \in rules)
                IN  IF mine = <<>> THEN <<>> ELSE <<mine[1]>>
        IN  SelectSeq(recommendations, LAMBDA advice : advice # Healthy)
                = OfMetric({MemoryIncreasing, HighMemory, LowMemory})
                  \o OfMetric({LatencyIncreasing, HighLatency})
                  \o OfMetric({ThroughputDecreasing, LowThroughput})

\* C24: the returned list is never empty; it is the single healthy advisory
\* exactly when no rule condition holds, and the healthy advisory never
\* comes with another advisory.
C24_HealthyIffNoRuleHolds ==
    (recommend_pc = "done") =>
        /\ recommendations # <<>>
        /\ (recommendations = <<Healthy>>)
               <=> (EveryRuleThatHolds(StatsOf(metric_series)) = <<>>)
        /\ (\E p \in 1..Len(recommendations) : recommendations[p] = Healthy)
               => recommendations = <<Healthy>>

C24_Witness ==
    /\ recommend_pc = "done"
    /\ EveryRuleThatHolds(StatsOf(metric_series)) = <<>>
    /\ recommendations = <<Healthy>>

-----------------------------------------------------------------------------
(* Pacing and coverage of the profiling sampler                            *)

\* the processing time of the tick that has just been appended
Elapsed == now - timestamp

\* C25: after each tick the sampler sleeps for max(0, interval - elapsed
\* processing time of the tick), in the bounded and in the unbounded run, so
\* that ticks whose processing is shorter than the interval start one
\* interval apart.
C25_SleepIsIntervalMinusElapsed ==
    (profile_pc = "sleep") => SleepTime = Max(0, interval - Elapsed)

\* what holds: the unbounded run sleeps the whole interval after every tick,
\* the bounded run the whole interval or what is left of the duration
SleepIgnoresElapsed ==
    (profile_pc = "sleep") =>
        IF profile_mode = "continuous" \/ duration - now > interval
        THEN SleepTime = interval
        ELSE SleepTime = duration - now

\* the monitored pipelines
Monitored == {processor_names[p] : p \in 1..Len(processor_names)}

\* the call has returned an analysis of at least one tick
ReturnedAnalysis == profile_pc = "returned" /\ profile.error = ""

\* C29: in the returned analysis every monitored pipeline with at least one
\* successfully recorded sample has an entry in the per-pipeline statistics,
\* computed over all of its successful samples, also when its first tick
\* holds no successful sample of it.
C29_EverySampledPipelineIsAnalysed ==
    ReturnedAnalysis =>
        \A name \in Monitored :
            (proc_data(samples, name) # <<>>) =>
                /\ name \in DOMAIN profile.processors
                /\ profile.processors[name]
                       = calculate_processor_stats(proc_data(samples, name))

\* what holds: the analysed pipelines are those with a successful sample in
\* the first tick, each over all of its successful samples
FirstTickNamesAreAnalysed ==
    ReturnedAnalysis =>
        /\ DOMAIN profile.processors
               = {name \in Monitored : proc_data(<<samples[1]>>, name) # <<>>}
        /\ \A name \in DOMAIN profile.processors :
               profile.processors[name]
                   = calculate_processor_stats(proc_data(samples, name))

-----------------------------------------------------------------------------
(* The windowing weight of the scorer                                      *)

\* the window operators of the stage vocabulary of test_processors.py
WindowOperators ==
    {<<"$","t","u","m","b","l","i","n","g","W","i","n","d","o","w">>,
     <<"$","h","o","p","p","i","n","g","W","i","n","d","o","w">>,
     <<"$","s","e","s","s","i","o","n","W","i","n","d","o","w">>}

IsWindowStage(stage) ==
    IsDict(stage) /\ \E operator \in WindowOperators : HasKey(stage, operator)

\* the window factors recorded for stage i
WindowFactors(i) ==
    {e \in FactorsOfKind("window") :
        result.analysis.complexity_factors[e].stage = i}

\* C28: a stage whose operator is $tumblingWindow, $hoppingWindow or
\* $sessionWindow contributes the +30 windowing weight to complexity_score.
C28_WindowStagesWeigh30 ==
    Scored =>
        \A i \in 1..Len(InputStages) :
            IsWindowStage(InputStages[i]) =>
                /\ WindowFactors(i) # {}
                /\ \A e \in WindowFactors(i) :
                       result.analysis.complexity_factors[e].weight = 30

\* what holds: the weight is given to a stage whose text holds "$window",
\* which the text of none of the window operators does
WindowWeightNeedsDollarWindow ==
    Scored =>
        \A i \in 1..Len(InputStages) :
            /\ (WindowFactors(i) # {})
                   <=> Contains(k_window, Str(InputStages[i]))
            /\ IsWindowStage(InputStages[i]) /\ Len(InputStages[i].items) = 1
                   => WindowFactors(i) = {}

-----------------------------------------------------------------------------
(* validate_all_processors: validate_processor_file on every file found    *)

MaxFiles == 2       \* files in the processors directory

\* a file of each kind: valid, valid with warnings, without a source,
\* without a pipeline, not JSON, and JSON that is no object
SuiteFiles ==
    {File(ProcessorWith(<<SourceYStage, MergeYStage>>, <<>>), <<"p">>),
     File(ProcessorWith(<<SourceXStage>>, <<>>), <<"q">>),
     File(ProcessorWith(<<MergeYStage>>, <<>>), <<"p">>),
     File(ProcessorWith(<<>>, <<>>), <<"p">>),
     NoFile,
     File(VInt(5), <<"p">>)}

InitSuite ==
    /\ processor_files \in SeqsUpTo(SuiteFiles, MaxFiles)
    /\ results = [NoResults EXCEPT !.total = Len(processor_files)]
    /\ suite_pc = "loop"
    /\ connection_names \in ConnectionsSet
    /\ processor_file = NoFile
    /\ validate_pc = "idle"
    /\ validation = NewValidation
    /\ strict_pc = "idle"
    /\ strict = [test \in StrictTests |-> NotRun]
    /\ ScorerIdle
    /\ PermuteIdle
    /\ ParserIdle
    /\ TrendIdle
    /\ ProfilerIdle
    /\ RecommendIdle
    /\ StarterIdle

\* the summary after one more file
Count(summary, file_result) ==
    [summary EXCEPT
        !.files = Append(@, file_result),
        !.valid = IF file_result.valid THEN @ + 1 ELSE @,
        !.invalid = IF file_result.valid THEN @ ELSE @ + 1]

\* one pass of  for proc_file in processor_files
ValidateNextFile ==
    /\ suite_pc = "loop"
    /\ Len(results.files) < Len(processor_files)
    /\ results' = Count(results,
                        validate_processor_file(
                            processor_files[Len(results.files) + 1],
                            connection_names))
    /\ UNCHANGED <<processor_files, suite_pc, validator_vars, scorer_vars,
                   parser_vars, trend_vars, profiler_vars, recommend_vars,
                   starter_vars>>

\* return results
ReturnResults ==
    /\ suite_pc = "loop"
    /\ Len(results.files) = Len(processor_files)
    /\ suite_pc' = "returned"
    /\ UNCHANGED <<processor_files, results, validator_vars, scorer_vars,
                   parser_vars, trend_vars, profiler_vars, recommend_vars,
                   starter_vars>>

NextSuite == ValidateNextFile \/ ReturnResults

SpecSuite == InitSuite /\ [][NextSuite]_vars

\* the result of a file is valid exactly when it holds no error, and an
\* exception raised while validating was recorded as an error, not passed on
Consistent(file_result) ==
    /\ file_result.valid <=> (file_result.errors = <<>>)
    /\ (file_result.raised # "") =>
           /\ file_result.errors # <<>>
           /\ file_result.errors[Len(file_result.errors)]
                  = Message("Validation error")

\* what holds of every file of the validator's input set
EveryResultIsConsistent ==
    (validate_pc = "done") => Consistent(validation)

\* C30: validate_processor_file returns for every file without raising, with
\* valid = true exactly when its errors list is empty (warnings do not
\* count), and validate_all_processors reports valid + invalid = total.
C30_ResultsAreConsistent ==
    /\ \A p \in 1..Len(results.files) : Consistent(results.files[p])
    /\ results.valid + results.invalid = Len(results.files)
    /\ results.total = Len(processor_files)
    /\ (suite_pc = "returned") =>
           /\ results.valid + results.invalid = results.total
           /\ Len(results.files) = results.total

\* a returned summary with a valid file that has warnings, and a file whose
\* validation raised
C30_Witness ==
    /\ suite_pc = "returned"
    /\ results.valid = 1
    /\ results.invalid = 1
    /\ \E p \in 1..2 : /\ results.files[p].valid
                       /\ results.files[p].warnings # <<>>
    /\ \E p \in 1..2 : results.files[p].raised # ""

-----------------------------------------------------------------------------
(* start_processor: the tier-constrained start, its retry with the tier    *)
(* the error parser suggests, and the untiered start.  A response is its   *)
(* status code and text; status 0 stands for requests.post raising a      *)
(* RequestException before any response arrives.                           *)

SP10 == <<"S","P","1","0">>
SP30 == <<"S","P","3","0">>
Current == <<"c","u","r","r","e","n","t">>

Request(endpoint, with_tier, status, text) ==
    [endpoint |-> endpoint, tier |-> with_tier, status |-> status,
     text |-> text]

Started(with_tier) == [status |-> "started", tier |-> with_tier, http_code |-> 0]
FailedStart(status) == [status |-> "failed", tier |-> <<>>, http_code |-> status]

\* response.raise_for_status() raises HTTPError
raise_for_status(status) == status >= 400

\* a retry for every suggestion
should_retry_same_tier(suggestion, with_tier) == suggestion.some

\* if suggested_tier and suggested_tier != tier
should_retry(suggestion, with_tier) ==
    suggestion.some /\ suggestion.tier # <<>> /\ suggestion.tier # with_tier

\* where the call stands after the response to the tier-constrained start
after_tier_start(with_tier, status, text) ==
    IF status = 0 THEN [pc |-> "returned", result |-> FailedStart(0)]
    ELSE IF status = 200
    THEN [pc |-> "returned", result |-> Started(with_tier)]
    ELSE IF status = 400
    THEN IF should_retry(parse_tier_validation_error(text), with_tier)
         THEN [pc |-> "retry", result |-> NoStart]
         ELSE [pc |-> "regular", result |-> NoStart]
    ELSE IF raise_for_status(status)
    THEN [pc |-> "returned", result |-> FailedStart(status)]
    ELSE [pc |-> "regular", result |-> NoStart]

\* a retry that takes every status that is no error for a success
after_retry_any_success(suggestion, status) ==
    IF status = 0 THEN [pc |-> "returned", result |-> FailedStart(0)]
    ELSE IF ~raise_for_status(status)
    THEN [pc |-> "returned", result |-> Started(suggestion.tier)]
    ELSE [pc |-> "regular", result |-> NoStart]

\* where the call stands after the response to the retry
after_retry(suggestion, status) ==
    IF status = 0 THEN [pc |-> "returned", result |-> FailedStart(0)]
    ELSE IF status = 200
    THEN [pc |-> "returned", result |-> Started(suggestion.tier)]
    ELSE [pc |-> "regular", result |-> NoStart]

\* the result after the response to the untiered start
after_regular_start(status) ==
    IF status = 0 \/ raise_for_status(status) THEN FailedStart(status)
    ELSE Started(Current)

\* the tiers a call is made with; the empty text is no tier
TierSet == {<<>>, SP10, SP30}

\* status codes of a response, and 0
Replies == {0, 200, 204, 400, 404, 500}

\* bodies of a rejected start: no pattern, a minimum tier, a requested
\* parallelism of the SP30 band and one of the SP10 band
StartErrorTexts ==
    {VStr(<<"b","a","d">>),
     VStr(MinimumTierPhrase \o SP30 \o <<" ","o","r"," ","l","a","r","g","e","r">>),
     VStr(RequestedPhrase \o <<"5">>),
     VStr(RequestedPhrase \o <<"3">>)}

NoText == VStr(<<>>)

InitStart ==
    /\ requested_tier \in TierSet
    /\ sent = <<>>
    /\ suggested_tier = NoSuggestion
    /\ start_pc = "try"
    /\ start_result = NoStart
    /\ ScorerIdle
    /\ PermuteIdle
    /\ ParserIdle
    /\ ValidatorIdle
    /\ TrendIdle
    /\ ProfilerIdle
    /\ RecommendIdle
    /\ SuiteIdle

before_starter_vars == <<scorer_vars, parser_vars, validator_vars, trend_vars,
                         profiler_vars, recommend_vars, suite_vars>>

\* requests.post(...:startWith, json={"tier": tier}) and the branch taken
SendTierStart ==
    /\ start_pc = "try"
    /\ requested_tier # <<>>
    /\ \E status \in Replies, text \in StartErrorTexts \cup {NoText} :
          /\ (status = 400) <=> (text \in StartErrorTexts)
          /\ sent' = Append(sent, Request("startWith", requested_tier,
                                          status, text))
          /\ suggested_tier' = IF status = 400
                               THEN parse_tier_validation_error(text)
                               ELSE suggested_tier
          /\ start_pc' = after_tier_start(requested_tier, status, text).pc
          /\ start_result' = after_tier_start(requested_tier, status, text).result
    /\ UNCHANGED <<requested_tier, before_starter_vars>>

\* the retry with the suggested tier
SendRetry ==
    /\ start_pc = "retry"
    /\ \E status \in Replies :
          /\ sent' = Append(sent, Request("startWith", suggested_tier.tier,
                                          status, NoText))
          /\ start_pc' = after_retry(suggested_tier, status).pc
          /\ start_result' = after_retry(suggested_tier, status).result
    /\ UNCHANGED <<requested_tier, suggested_tier, before_starter_vars>>

\* the regular start endpoint
SendRegularStart ==
    /\ \/ start_pc = "regular"
       \/ start_pc = "try" /\ requested_tier = <<>>
    /\ \E status \in Replies :
          /\ sent' = Append(sent, Request("start", <<>>, status, NoText))
          /\ start_result' = after_regular_start(status)
    /\ start_pc' = "returned"
    /\ UNCHANGED <<requested_tier, suggested_tier, before_starter_vars>>

NextStart == SendTierStart \/ SendRetry \/ SendRegularStart

SpecStart == InitStart /\ [][NextStart]_vars

\* the tier-constrained starts sent so far, by position
TierStarts == {p \in 1..Len(sent) : sent[p].endpoint = "startWith"}

\* the untiered starts sent so far
RegularStarts == {p \in 1..Len(sent) : sent[p].endpoint = "start"}

\* the request was answered with an error status, or raised
FailedRequest(p) == sent[p].status = 0 \/ sent[p].status >= 400

\* C26: in a call with a tier, a second tier-constrained start is sent only
\* after the first was rejected with 400 and the error parser returned, for
\* the text of that response, a suggestion that differs from the requested
\* tier; it carries the suggested tier, and at most one is sent per call.
C26_RetryOnlyOnDifferentSuggestion ==
    /\ Cardinality(TierStarts) <= 2
    /\ TierStarts \subseteq {1, 2}
    /\ (TierStarts # {}) => requested_tier # <<>> /\ sent[1].tier = requested_tier
    /\ (2 \in TierStarts) =>
           LET suggestion == parse_tier_validation_error(sent[1].text)
           IN  /\ sent[1].status = 400
               /\ suggestion.some
               /\ suggestion.tier # requested_tier
               /\ sent[2].tier = suggestion.tier

\* a call whose retry was sent and failed, and went on to the untiered start
C26_Witness ==
    /\ start_pc = "returned"
    /\ Len(sent) = 3
    /\ TierStarts = {1, 2}
    /\ sent[2].tier # requested_tier

\* a rejected start without a retry: no suggestion, or the requested tier
RejectedWithoutRetry ==
    /\ start_pc = "returned"
    /\ TierStarts = {1}
    /\ sent[1].status = 400
    /\ LET suggestion == parse_tier_validation_error(sent[1].text)
       IN  ~suggestion.some \/ suggestion.tier = requested_tier

\* C27: a call with a tier sends at most three start requests, in the order
\* tier-constrained, retry, untiered; it returns "started" with a tier T
\* other than "current" only if a tier-constrained start with T was
\* answered 200, "started" with tier "current" only after the untiered
\* start succeeded, and, when the request that ends the call fails (an
\* error status or an exception of requests), it returns "failed" with the
\* status instead of raising.
C27_ResultIsFaithful ==
    /\ Len(sent) <= 3
    /\ Cardinality(RegularStarts) <= 1
    /\ \A p \in TierStarts : \A q \in RegularStarts : p < q
    /\ (start_pc = "returned") =>
           /\ sent # <<>>
           /\ start_result.status \in {"started", "failed"}
           /\ (start_result.status = "started" /\ start_result.tier # Current)
                  => \E p \in TierStarts :
                         sent[p].tier = start_result.tier /\ sent[p].status = 200
           /\ (start_result.status = "started" /\ start_result.tier = Current)
                  => /\ Len(sent) \in RegularStarts
                     /\ ~FailedRequest(Len(sent))
           /\ FailedRequest(Len(sent))
                  => /\ start_result.status = "failed"
                     /\ start_result.http_code = sent[Len(sent)].status
           /\ (start_result.status = "failed") => FailedRequest(Len(sent))

\* a call that returned the suggested tier after a successful retry
C27_Witness ==
    /\ start_pc = "returned"
    /\ Len(sent) = 2
    /\ sent[2].status = 200
    /\ start_result.status = "started"
    /\ start_result.tier = sent[2].tier
    /\ start_result.tier # requested_tier

====
